---- MODULE Spec2Model ----
(***************************************************************************)
(* Model of the command line parser of package cli (src/cli.go,            *)
(* src/builder.go, src/parsers.go).                                        *)
(*                                                                         *)
(* Go strings are modelled as sequences of one-character strings, so that  *)
(* the byte-level tests of parse (arg[0] != '-', arg[1] != '=', the scan   *)
(* for '=', arg[charIdx+1:]) are computed as the code computes them.       *)
(* Cursors and indices are 0-based as in the code; At(s, k) reads s[k].    *)
(***************************************************************************)
EXTENDS Integers, Sequences, FiniteSets, TLC

\* ------------------------------------------------------------------------
\* Bounds of the model
\* ------------------------------------------------------------------------

\* Longest argument list handed to ParseThese.
MaxArgs == 3

\* ------------------------------------------------------------------------
\* Go strings and slices
\* ------------------------------------------------------------------------

\* The zero byte: the value of InputInfo.NameShort when no short name is set.
NUL == "NUL"

\* s[k] for a 0-based index k.
At(s, k) == s[k + 1]

\* s[k:] for a 0-based index k.
From(s, k) == SubSeq(s, k + 1, Len(s))

\* s[:k] for a 0-based index k.
Upto(s, k) == SubSeq(s, 1, k)

\* "-" + string(ch)
Hyphen(ch) == <<"-", ch>>

RECURSIVE eqIndexFrom(_, _)
eqIndexFrom(arg, z) ==
    IF z >= Len(arg) THEN -1
    ELSE IF At(arg, z) = "=" THEN z
    ELSE eqIndexFrom(arg, z + 1)

\* The index of the first '=' of arg, or -1.
eqIndex(arg) == eqIndexFrom(arg, 0)

\* ------------------------------------------------------------------------
\* Values and value parsers
\* ------------------------------------------------------------------------

\* A parsed value (Go: any) with its dynamic type.
BoolVal(b) == [t |-> "bool", b |-> b, s |-> <<>>, n |-> 0]
StrVal(s) == [t |-> "string", b |-> FALSE, s |-> s, n |-> 0]
IntVal(n) == [t |-> "int", b |-> FALSE, s |-> <<>>, n |-> n]
NoVal == [t |-> "nil", b |-> FALSE, s |-> <<>>, n |-> 0]

\* strconv.ParseBool accepts "1", "t", "T", "TRUE", "true", "True" and
\* "0", "f", "F", "FALSE", "false", "False", and nothing else.
TrueStrs == {<<"1">>, <<"t">>, <<"T">>, <<"T", "R", "U", "E">>,
             <<"t", "r", "u", "e">>, <<"T", "r", "u", "e">>}
FalseStrs == {<<"0">>, <<"f">>, <<"F">>, <<"F", "A", "L", "S", "E">>,
              <<"f", "a", "l", "s", "e">>, <<"F", "a", "l", "s", "e">>}

ParseBool(s) ==
    IF s \in TrueStrs THEN [ok |-> TRUE, val |-> BoolVal(TRUE)]
    ELSE IF s \in FalseStrs THEN [ok |-> TRUE, val |-> BoolVal(FALSE)]
    ELSE [ok |-> FALSE, val |-> BoolVal(FALSE)]

RECURSIVE onesValue(_)
onesValue(s) == IF s = <<>> THEN 0 ELSE 10 * onesValue(Upto(s, Len(s) - 1)) + 1

AllOnes(s) == s # <<>> /\ \A k \in 1..Len(s) : s[k] = "1"

\* strconv.ParseInt(s, 0, 0) on the strings of the model, whose only digit
\* is '1' and whose only sign is '-': an optional sign, then one or more
\* digits.  Every other string of the model is a syntax error.
ParseInt(s) ==
    IF AllOnes(s) THEN [ok |-> TRUE, val |-> IntVal(onesValue(s))]
    ELSE IF s # <<>> /\ s[1] = "-" /\ AllOnes(Tail(s))
        THEN [ok |-> TRUE, val |-> IntVal(0 - onesValue(Tail(s)))]
    ELSE [ok |-> FALSE, val |-> IntVal(0)]

\* Apply the value parser named vp (InputInfo.ValueParser, not nil).
ApplyParser(vp, s) ==
    IF vp = "ParseInt" THEN ParseInt(s) ELSE ParseBool(s)

\* ------------------------------------------------------------------------
\* Errors
\* ------------------------------------------------------------------------

MkErr(type, cmd, name, names, msg) ==
    [type |-> type, Cmd |-> cmd, Name |-> name, Names |-> names, Msg |-> msg]

NilErr == MkErr("nil", <<>>, <<>>, <<>>, <<>>)
ErrNoSubcmd == MkErr("ErrNoSubcmd", <<>>, <<>>, <<>>, <<>>)
UnknownSubcmdError(c, name) == MkErr("UnknownSubcmdError", c.Path, name, <<>>, <<>>)
UnknownOptionError(c, name) == MkErr("UnknownOptionError", c.Path, name, <<>>, <<>>)
MissingOptionValueError(c, name) ==
    MkErr("MissingOptionValueError", c.Path, name, <<>>, <<>>)
MissingOptionsError(c, names) == MkErr("MissingOptionsError", c.Path, <<>>, names, <<>>)
MissingArgsError(c, names) == MkErr("MissingArgsError", c.Path, <<>>, names, <<>>)

HelpOrVersionRequested(msg) == MkErr("HelpOrVersionRequested", <<>>, <<>>, <<>>, msg)

\* fmt.Errorf("...: %w", err) around a value parser's error; what names the
\* place of the failure (default, env var, option, positional argument).
WrappedError(what, name) == MkErr(what, <<>>, name, <<>>, <<>>)

\* ------------------------------------------------------------------------
\* The command schema and its builder
\* ------------------------------------------------------------------------

\* The zero InputInfo with the given ID.  The fields that only feed the help
\* text (HelpBlurb) are left out.
InputInfoOf(id) ==
    [ID |-> id, NameShort |-> NUL, NameLong |-> <<>>, EnvVar |-> <<>>,
     IsBoolOpt |-> FALSE, IsRequired |-> FALSE,
     StrDefault |-> <<>>, HasStrDefault |-> FALSE,
     ValueName |-> <<>>, ValueParser |-> "nil",
     HelpGen |-> "nil", Versioner |-> "nil"]

Short(in, ch) == [in EXCEPT !.NameShort = ch]
ShortOnly(in, ch) == Short([in EXCEPT !.NameLong = <<>>], ch)
Long(in, name) == [in EXCEPT !.NameLong = name]
Env(in, e) == [in EXCEPT !.EnvVar = e]
Required(in) == [in EXCEPT !.IsRequired = TRUE]
Default(in, v) == [in EXCEPT !.StrDefault = v, !.HasStrDefault = TRUE]
WithParser(in, vp) == [in EXCEPT !.ValueParser = vp]
WithHelpGen(in, hg) == [in EXCEPT !.HelpGen = hg]
WithVersioner(in, vr) == [in EXCEPT !.Versioner = vr]
WithValueName(in, name) == [in EXCEPT !.ValueName = name]

\* NewOpt panics on an empty id; every id of the model is non-empty.
NewOpt(id) ==
    IF Len(id) = 1 THEN ShortOnly(InputInfoOf(id), id[1])
    ELSE Long(InputInfoOf(id), id)

NewBoolOpt(id) == [NewOpt(id) EXCEPT !.IsBoolOpt = TRUE]
NewIntOpt(id) == WithParser(NewOpt(id), "ParseInt")
NewArg(id) == [InputInfoOf(id) EXCEPT !.ValueName = id]

isOption(in) == in.NameShort # NUL \/ in.NameLong # <<>>

DefaultHelpInput ==
    WithHelpGen(Short(NewBoolOpt(<<"h", "e", "l", "p">>), "h"), "DefaultHelpGenerator")

errMixingPosArgsAndSubcmds == "commands cannot have both positional args and subcommands"
errEmptyCmdName == "empty command name"
errEmptyOptNames == "options must have either a short or long name"
errOptAsPosArg == "adding an option as a positional argument"
errReqArgAfterOptional == "required positional arguments cannot come after optional ones"

\* A CommandInfo.  panic is the model's record of a Go panic raised while
\* the value was built or prepared ("" when there was none), panicPath and
\* panicDup the command path and the duplicate its message names when it has
\* them: a panicked value is passed
\* through the rest of the builder chain unchanged.
CommandInfoOf(name) ==
    [Name |-> name, Path |-> <<name>>, Opts |-> <<>>, Args |-> <<>>,
     Subcmds |-> <<>>, IsSubcmdOptional |-> FALSE, isPrepped |-> FALSE,
     panic |-> "", panicPath |-> <<>>, panicDup |-> <<>>]

Panicked(c, msg) == [c EXCEPT !.panic = msg]

Whitespace == {" ", "\t", "\n", "\r"}

NewCmd(name) ==
    IF name = <<>> THEN Panicked(CommandInfoOf(name), errEmptyCmdName)
    ELSE IF \E k \in 1..Len(name) : name[k] \in Whitespace
        THEN Panicked(CommandInfoOf(name), "invalid command name")
    ELSE CommandInfoOf(name)

Opt(c, o) ==
    IF c.panic # "" THEN c
    ELSE IF o.NameShort = NUL /\ o.NameLong = <<>> THEN Panicked(c, errEmptyOptNames)
    ELSE [c EXCEPT !.Opts = Append(@, o)]

Arg(c, a) ==
    IF c.panic # "" THEN c
    ELSE IF Len(c.Subcmds) > 0 THEN Panicked(c, errMixingPosArgsAndSubcmds)
    ELSE IF isOption(a) THEN Panicked(c, errOptAsPosArg)
    ELSE IF a.IsRequired /\ Len(c.Args) > 0 /\ ~c.Args[Len(c.Args)].IsRequired
        THEN Panicked(c, errReqArgAfterOptional)
    ELSE [c EXCEPT !.Args = Append(@, a)]

Subcmd(c, sc) ==
    IF c.panic # "" THEN c
    ELSE IF sc.panic # "" THEN Panicked(c, sc.panic)
    ELSE IF Len(c.Args) > 0 THEN Panicked(c, errMixingPosArgsAndSubcmds)
    ELSE [c EXCEPT !.Subcmds = Append(@, [sc EXCEPT !.Path = Append(c.Path, sc.Name)])]

SubcmdOptional(c) == [c EXCEPT !.IsSubcmdOptional = TRUE]

\* ------------------------------------------------------------------------
\* Parsed values
\* ------------------------------------------------------------------------

\* ParsedFrom: the place an Input came from.
NoFrom == [Env |-> <<>>, Opt |-> <<>>, Arg |-> 0, Default |-> FALSE]
FromDefault == [NoFrom EXCEPT !.Default = TRUE]
FromEnv(name) == [NoFrom EXCEPT !.Env = name]
FromOpt(name) == [NoFrom EXCEPT !.Opt = name]
FromArg(n) == [NoFrom EXCEPT !.Arg = n]

MkInput(id, from, raw, val) == [Value |-> val, ID |-> id, RawValue |-> raw, From |-> from]
ZeroInput == MkInput(<<>>, NoFrom, <<>>, NoVal)

\* A Command; its Subcmd link is kept outside the record, as the next
\* element of the sequence of Commands of one parse.
MkCommand(name) == [Name |-> name, Inputs |-> <<>>, Surplus |-> <<>>]

\* The environment: a function from variable names to [set, val].
LookupEnv(e, name) ==
    IF name \in DOMAIN e THEN e[name] ELSE [set |-> FALSE, val |-> <<>>]

\* coerce with the test of IsBoolOpt before that of the value parser.
coerceBoolFirst(info, rawValue) ==
    IF info.IsBoolOpt THEN
        IF rawValue # <<>> THEN ParseBool(rawValue)
        ELSE [ok |-> TRUE, val |-> BoolVal(TRUE)]
    ELSE IF info.ValueParser # "nil" THEN ApplyParser(info.ValueParser, rawValue)
    ELSE [ok |-> TRUE, val |-> StrVal(rawValue)]

\* The value newInput computes from the raw string, and whether it did.
coerce(info, rawValue) ==
    IF info.ValueParser # "nil" THEN ApplyParser(info.ValueParser, rawValue)
    ELSE IF info.IsBoolOpt THEN
        IF rawValue # <<>> THEN ParseBool(rawValue)
        ELSE [ok |-> TRUE, val |-> BoolVal(TRUE)]
    ELSE [ok |-> TRUE, val |-> StrVal(rawValue)]

newInput(info, src, rawValue) ==
    LET r == coerce(info, rawValue)
    IN  IF ~r.ok THEN [ok |-> FALSE, in |-> ZeroInput]
        ELSE [ok |-> TRUE, in |-> MkInput(info.ID, src, rawValue, r.val)]

\* ------------------------------------------------------------------------
\* Lookups
\* ------------------------------------------------------------------------

\* The loop of Lookup run from the front: the first entry instead of the last.
lookupFromFront(inputs, id, k) ==
    IF \A j \in 1..Len(inputs) : inputs[j].ID # id THEN [ok |-> FALSE, val |-> NoVal]
    ELSE [ok |-> TRUE,
          val |-> inputs[CHOOSE j \in 1..Len(inputs) :
                            inputs[j].ID = id /\ \A i \in 1..(j - 1) : inputs[i].ID # id].Value]

RECURSIVE lookupFrom(_, _, _)
lookupFrom(inputs, id, k) ==
    IF k < 0 THEN [ok |-> FALSE, val |-> NoVal]
    ELSE IF At(inputs, k).ID = id THEN [ok |-> TRUE, val |-> At(inputs, k).Value]
    ELSE lookupFrom(inputs, id, k - 1)

Lookup(p, id) == lookupFrom(p.Inputs, id, Len(p.Inputs) - 1)

\* The type parameters T of the lookups in the model, and the zero value of
\* each; "any" is the interface type that Value has.
Types == {"bool", "string", "int", "any"}
Zero(T) ==
    IF T = "bool" THEN BoolVal(FALSE)
    ELSE IF T = "string" THEN StrVal(<<>>)
    ELSE IF T = "int" THEN IntVal(0)
    ELSE NoVal

\* The type assertion v.(T) succeeds.
Asserts(v, T) == v.t # "nil" /\ (T = "any" \/ v.t = T)

\* What a lookup leaves: its panic ("" when none), the value it returned,
\* whether it found one, and whether the fallback made the value.
Looked(panic, val, ok, fellBack) ==
    [panic |-> panic, val |-> val, ok |-> ok, fallback |-> fellBack]

\* Lookup[T](c, id)
LookupOf(T, c, id) ==
    LET r == Lookup(c, id)
    IN  IF ~r.ok THEN Looked("", Zero(T), FALSE, FALSE)
        ELSE IF ~Asserts(r.val, T) THEN Looked("interface conversion", Zero(T), FALSE, FALSE)
        ELSE Looked("", r.val, TRUE, FALSE)

\* Get[T](c, id)
Get(T, c, id) ==
    LET r == LookupOf(T, c, id)
    IN  IF r.panic # "" \/ r.ok THEN r
        ELSE Looked("no parsed input value for id", Zero(T), FALSE, FALSE)

\* GetOr[T](c, id, fallback), and GetOrFunc[T](c, id, fn) with fallback the
\* value that fn returns: fn is called when the fallback makes the value.
GetOr(T, c, id, fallback) ==
    LET r == LookupOf(T, c, id)
    IN  IF r.panic # "" \/ r.ok THEN r
        ELSE Looked("", fallback, FALSE, TRUE)

GetOrFunc(T, c, id, fallback) == GetOr(T, c, id, fallback)

\* The loop of GetAll and of GetAllSeq from index k (1-based), vals gathered
\* so far; the consumer of GetAllSeq takes at most n values (yield returns
\* false on the n-th), GetAll takes all.
RECURSIVE valuesFrom(_, _, _, _, _)
valuesFrom(T, inputs, id, k, n) ==
    IF k > Len(inputs) \/ n = 0 THEN [panic |-> "", vals |-> <<>>]
    ELSE IF inputs[k].ID # id THEN valuesFrom(T, inputs, id, k + 1, n)
    ELSE IF ~Asserts(inputs[k].Value, T) THEN [panic |-> "interface conversion", vals |-> <<>>]
    ELSE LET r == valuesFrom(T, inputs, id, k + 1, n - 1)
         IN  [panic |-> r.panic, vals |-> <<inputs[k].Value>> \o r.vals]

\* GetAll[T](c, id)
GetAll(T, c, id) ==
    LET r == valuesFrom(T, c.Inputs, id, 1, Len(c.Inputs) + 1)
    IN  IF r.panic # "" THEN [r EXCEPT !.vals = <<>>] ELSE r

\* GetAllSeq[T](c, id), ranged over until n values are taken.
GetAllSeq(T, c, id, n) == valuesFrom(T, c.Inputs, id, 1, n)

hasOpt(p, id) == \E k \in 1..Len(p.Inputs) : p.Inputs[k].ID = id
hasArg(p, id) == \E k \in 1..Len(p.Inputs) : p.Inputs[k].ID = id

\* Index (1-based) of the first option whose NameShort is shortName, or 0.
lookupOptionByShortName(c, shortName) ==
    IF \E k \in 1..Len(c.Opts) : c.Opts[k].NameShort = shortName
    THEN CHOOSE k \in 1..Len(c.Opts) :
            /\ c.Opts[k].NameShort = shortName
            /\ \A j \in 1..(k - 1) : c.Opts[j].NameShort # shortName
    ELSE 0

\* Index (1-based) of the first option whose NameLong is name, or 0.
lookupOptionByLongName(c, name) ==
    IF \E k \in 1..Len(c.Opts) : c.Opts[k].NameLong = name
    THEN CHOOSE k \in 1..Len(c.Opts) :
            /\ c.Opts[k].NameLong = name
            /\ \A j \in 1..(k - 1) : c.Opts[j].NameLong # name
    ELSE 0

\* ------------------------------------------------------------------------
\* parse: defaults and environment
\* ------------------------------------------------------------------------

\* One loop of "set any defaults" over infos (c.Opts or c.Args) from index k
\* (1-based); what names the wrapped error of the loop.
RECURSIVE defaultsLoop(_, _, _, _)
defaultsLoop(infos, k, inputs, what) ==
    IF k > Len(infos) THEN [err |-> NilErr, Inputs |-> inputs]
    ELSE IF ~infos[k].HasStrDefault THEN defaultsLoop(infos, k + 1, inputs, what)
    ELSE LET r == newInput(infos[k], FromDefault, infos[k].StrDefault)
         IN  IF ~r.ok
             THEN [err |-> WrappedError(what, infos[k].ID), Inputs |-> inputs]
             ELSE defaultsLoop(infos, k + 1, Append(inputs, r.in), what)

setDefaults(c, inputs) ==
    LET o == defaultsLoop(c.Opts, 1, inputs, "DefaultOptionValueError")
    IN  IF o.err # NilErr THEN o
        ELSE defaultsLoop(c.Args, 1, o.Inputs, "DefaultArgValueError")

\* envsLoop passing over a variable whose value does not coerce.
RECURSIVE envsLoopSkipping(_, _, _, _)
envsLoopSkipping(infos, k, e, inputs) ==
    IF k > Len(infos) THEN [err |-> NilErr, Inputs |-> inputs]
    ELSE IF infos[k].EnvVar = <<>> \/ ~LookupEnv(e, infos[k].EnvVar).set
        THEN envsLoopSkipping(infos, k + 1, e, inputs)
    ELSE LET r == newInput(infos[k], FromEnv(infos[k].EnvVar),
                           LookupEnv(e, infos[k].EnvVar).val)
         IN  IF ~r.ok
             THEN envsLoopSkipping(infos, k + 1, e, inputs)
             ELSE envsLoopSkipping(infos, k + 1, e, Append(inputs, r.in))

\* One loop of "grab any envs" over infos from index k (1-based).
RECURSIVE envsLoop(_, _, _, _)
envsLoop(infos, k, e, inputs) ==
    IF k > Len(infos) THEN [err |-> NilErr, Inputs |-> inputs]
    ELSE IF infos[k].EnvVar = <<>> \/ ~LookupEnv(e, infos[k].EnvVar).set
        THEN envsLoop(infos, k + 1, e, inputs)
    ELSE LET r == newInput(infos[k], FromEnv(infos[k].EnvVar),
                           LookupEnv(e, infos[k].EnvVar).val)
         IN  IF ~r.ok
             THEN [err |-> WrappedError("EnvVarError", infos[k].EnvVar),
                   Inputs |-> inputs]
             ELSE envsLoop(infos, k + 1, e, Append(inputs, r.in))

\* grabEnvs with the environment entries put in front of the defaults.
grabEnvsFirst(c, e, inputs) ==
    LET o == envsLoop(c.Opts, 1, e, <<>>)
        a == IF o.err # NilErr THEN o ELSE envsLoop(c.Args, 1, e, o.Inputs)
    IN  [err |-> a.err, Inputs |-> a.Inputs \o inputs]

grabEnvs(c, e, inputs) ==
    LET o == envsLoop(c.Opts, 1, e, inputs)
    IN  IF o.err # NilErr THEN o
        ELSE envsLoop(c.Args, 1, e, o.Inputs)

\* ------------------------------------------------------------------------
\* parse: the option scan
\* ------------------------------------------------------------------------

\* What one iteration of the option loop leaves: ctl is "continue" (the
\* loop goes on at cursor i), "break" (the loop is left at cursor i) or
\* "return" (parse returns err).
Outcome(ctl, i, inputs, err) == [ctl |-> ctl, i |-> i, Inputs |-> inputs, err |-> err]

\* isCluster with the length test off by one.
isClusterLong(arg) == arg[1] # "-" /\ Len(arg) > 2 /\ arg[2] # "="

\* arg (the token without its first '-', not empty) is a stack of short
\* options or a short option with its value attached.
isCluster(arg) == arg[1] # "-" /\ Len(arg) > 1 /\ arg[2] # "="

\* The Name of the UnknownOptionError of a cluster.
clusterUnknownName(optName) == Hyphen(optName)

\* clusterAttachedValue with the slice begun one character late.
clusterAttachedValueLate(arg, charIdx) == From(arg, charIdx + 2)

\* The raw value attached to the non-boolean option at charIdx of a cluster.
clusterAttachedValue(arg, charIdx) == From(arg, charIdx + 1)

\* The message HelpGen(pi, c) of the help generator named gen: a function of
\* the triggering input and the command.
HelpGenMsg(gen, pi, c) == << <<gen>>, pi.From.Opt, pi.RawValue >> \o c.Path

\* The message Versioner(pi) of the versioner named vr: a function of the
\* triggering input alone.
VersionerMsg(vr, pi) == << <<vr>>, pi.From.Opt, pi.RawValue >>

\* helpRequest without the test of the Versioner.
helpRequestOfGen(c, optInfo, pi) ==
    IF optInfo.HelpGen # "nil"
        THEN HelpOrVersionRequested(HelpGenMsg(optInfo.HelpGen, pi, c))
    ELSE NilErr

\* The help or version request of a resolved option, if it has one.
helpRequest(c, optInfo, pi) ==
    IF optInfo.HelpGen # "nil"
        THEN HelpOrVersionRequested(HelpGenMsg(optInfo.HelpGen, pi, c))
    ELSE IF optInfo.Versioner # "nil"
        THEN HelpOrVersionRequested(VersionerMsg(optInfo.Versioner, pi))
    ELSE NilErr

\* The inner loop over the characters of a cluster, from charIdx on; i is
\* the cursor of the outer loop.
RECURSIVE clusterLoop(_, _, _, _, _, _)
clusterLoop(c, args, i, arg, charIdx, inputs) ==
    IF charIdx >= Len(arg) THEN Outcome("continue", i + 1, inputs, NilErr)
    ELSE
    LET optName == At(arg, charIdx)
        optIdx == lookupOptionByShortName(c, optName)
    IN  IF optIdx = 0
        THEN Outcome("return", i, inputs, UnknownOptionError(c, clusterUnknownName(optName)))
        ELSE
        LET optInfo == c.Opts[optIdx]
            isLast == charIdx = Len(arg) - 1
            takesNext == ~optInfo.IsBoolOpt /\ isLast
            skipRest == ~optInfo.IsBoolOpt /\ ~isLast
            i2 == IF takesNext THEN i + 1 ELSE i
            rawValue == IF optInfo.IsBoolOpt THEN <<>>
                        ELSE IF isLast THEN (IF i2 < Len(args) THEN At(args, i2) ELSE <<>>)
                        ELSE clusterAttachedValue(arg, charIdx)
            r == newInput(optInfo, FromOpt(<<optName>>), rawValue)
        IN  IF takesNext /\ ~(i2 < Len(args))
            THEN Outcome("return", i2, inputs, MissingOptionValueError(c, <<optName>>))
            ELSE IF ~r.ok
            THEN Outcome("return", i2, inputs, WrappedError("OptionValueError", <<optName>>))
            ELSE IF helpRequest(c, optInfo, r.in) # NilErr
            THEN Outcome("return", i2, inputs, helpRequest(c, optInfo, r.in))
            ELSE IF skipRest
            THEN Outcome("continue", i2 + 1, Append(inputs, r.in), NilErr)
            ELSE clusterLoop(c, args, i2, arg, charIdx + 1, Append(inputs, r.in))

scanCluster(c, args, i, arg, inputs) == clusterLoop(c, args, i, arg, 0, inputs)

\* namedUnknownName with the first hyphen of the token dropped.
namedUnknownNameCut(args, i) == From(At(args, i), 1)

\* The Name of the UnknownOptionError of a token that is no cluster.
namedUnknownName(args, i) == At(args, i)

\* The option (1-based index into c.Opts, or 0) a name resolves to.
resolveName(c, name) ==
    IF Len(name) = 1 THEN lookupOptionByShortName(c, name[1])
    ELSE lookupOptionByLongName(c, name)

\* missingValueName with a hyphen kept in front of the name.
missingValueNameHyphen(name) == <<"-">> \o name

\* The Name of the MissingOptionValueError of a token that is no cluster.
missingValueName(name) == name

\* takesNextToken of a parse that never reads the value from the next token.
takesNextTokenNever(optInfo, eqIdx) == FALSE

\* A boolean option takes no value from the next token.
takesNextToken(optInfo, eqIdx) == eqIdx = -1 /\ ~optInfo.IsBoolOpt

\* One option token that is no cluster; arg is the token without its
\* leading hyphens.
scanNamed(c, args, i, arg, inputs) ==
    LET eqIdx == eqIndex(arg)
        name == IF eqIdx # -1 THEN Upto(arg, eqIdx) ELSE arg
        optIdx == resolveName(c, name)
    IN  IF optIdx = 0
        THEN Outcome("return", i, inputs, UnknownOptionError(c, namedUnknownName(args, i)))
        ELSE
        LET optInfo == c.Opts[optIdx]
            takesNext == takesNextToken(optInfo, eqIdx)
            i2 == IF takesNext THEN i + 1 ELSE i
            rawValue == IF eqIdx # -1 THEN From(arg, eqIdx + 1)
                        ELSE IF takesNext /\ i2 < Len(args) THEN At(args, i2)
                        ELSE <<>>
            r == newInput(optInfo, FromOpt(name), rawValue)
        IN  IF takesNext /\ ~(i2 < Len(args))
            THEN Outcome("return", i2, inputs,
                         MissingOptionValueError(c, missingValueName(name)))
            ELSE IF ~r.ok
            THEN Outcome("return", i2, inputs, WrappedError("OptionValueError", name))
            ELSE IF helpRequest(c, optInfo, r.in) # NilErr
            THEN Outcome("return", i2, inputs, helpRequest(c, optInfo, r.in))
            ELSE Outcome("continue", i2 + 1, Append(inputs, r.in), NilErr)

\* afterDashDash with the token left unconsumed.
afterDashDashStay(i) == i

\* afterDashDash with the cursor moved past the token that follows.
afterDashDashTwice(i) == i + 2

\* The cursor after a token of just "--".
afterDashDash(i) == i + 1

\* afterHyphen with the token consumed.
afterHyphenSkip(i) == i + 1

\* The cursor after a token of just "-".
afterHyphen(i) == i

\* How the option loop treats the token at cursor i:
\*   "end"        i = len(args), the loop condition fails
\*   "positional" the token is empty or does not begin with '-'
\*   "hyphen"     the token is just "-"
\*   "cluster"    stacked short options, or a short option with its value
\*   "dashdash"   the token is just "--"
\*   "named"      every other option token
tokenKind(args, i) ==
    IF ~(i < Len(args)) THEN "end"
    ELSE LET tok == At(args, i)
         IN  IF Len(tok) = 0 \/ tok[1] # "-" THEN "positional"
             ELSE IF Len(From(tok, 1)) = 0 THEN "hyphen"
             ELSE IF isCluster(From(tok, 1)) THEN "cluster"
             ELSE IF From(tok, 1) = <<"-">> THEN "dashdash"
             ELSE "named"

\* The token at cursor i without its leading hyphens, for scanNamed.
namedArg(args, i) ==
    LET arg == From(At(args, i), 1)
    IN  IF Len(arg) > 0 /\ arg[1] = "-" THEN From(arg, 1) ELSE arg

\* One iteration of the option loop at cursor i.
scanOne(c, args, i, inputs) ==
    LET kind == tokenKind(args, i)
    IN  IF kind \in {"end", "positional"} THEN Outcome("break", i, inputs, NilErr)
        ELSE IF kind = "hyphen" THEN Outcome("break", afterHyphen(i), inputs, NilErr)
        ELSE IF kind = "cluster" THEN scanCluster(c, args, i, From(At(args, i), 1), inputs)
        ELSE IF kind = "dashdash" THEN Outcome("break", afterDashDash(i), inputs, NilErr)
        ELSE scanNamed(c, args, i, namedArg(args, i), inputs)

\* The whole option loop from cursor i.
RECURSIVE scanOptions(_, _, _, _)
scanOptions(c, args, i, inputs) ==
    LET o == scanOne(c, args, i, inputs)
    IN  IF o.ctl = "continue" THEN scanOptions(c, args, o.i, o.Inputs) ELSE o

\* ------------------------------------------------------------------------
\* parse: required options, positional arguments, subcommands
\* ------------------------------------------------------------------------

\* The display name of a missing required option.
optDisplayName(o) ==
    IF o.NameLong # <<>> THEN <<"-", "-">> \o o.NameLong ELSE Hyphen(o.NameShort)

RECURSIVE missingOptsFrom(_, _, _)
missingOptsFrom(c, p, k) ==
    IF k > Len(c.Opts) THEN <<>>
    ELSE IF c.Opts[k].IsRequired /\ ~hasOpt(p, c.Opts[k].ID)
        THEN <<optDisplayName(c.Opts[k])>> \o missingOptsFrom(c, p, k + 1)
    ELSE missingOptsFrom(c, p, k + 1)

\* The required options of c that have no entry in p, by display name.
missingOpts(c, p) == missingOptsFrom(c, p, 1)

\* errMissingOpts after the check of the required options.
requiredCheck(c, p) ==
    IF Len(missingOpts(c, p)) > 0 THEN MissingOptionsError(c, missingOpts(c, p))
    ELSE NilErr

\* missingArgsFrom without the test for an entry.
RECURSIVE missingArgsFromAll(_, _, _)
missingArgsFromAll(c, inputs, i) ==
    IF ~(i < Len(c.Args)) \/ ~At(c.Args, i).IsRequired THEN <<>>
    ELSE <<At(c.Args, i).ValueName>> \o missingArgsFromAll(c, inputs, i + 1)

\* The inner loop that collects the missing required arguments from slot i
\* (0-based) on; it stops at the first optional one.
RECURSIVE missingArgsFrom(_, _, _)
missingArgsFrom(c, inputs, i) ==
    IF ~(i < Len(c.Args)) \/ ~At(c.Args, i).IsRequired THEN <<>>
    ELSE IF ~hasArg([Inputs |-> inputs], At(c.Args, i).ID)
        THEN <<At(c.Args, i).ValueName>> \o missingArgsFrom(c, inputs, i + 1)
    ELSE missingArgsFrom(c, inputs, i + 1)

\* Where that inner loop leaves i.
RECURSIVE missingArgsEnd(_, _)
missingArgsEnd(c, i) ==
    IF ~(i < Len(c.Args)) \/ ~At(c.Args, i).IsRequired THEN i
    ELSE missingArgsEnd(c, i + 1)

\* What the walk over the positional arguments leaves.
Walked(err, i, inputs, surplus) ==
    [err |-> err, i |-> i, Inputs |-> inputs, Surplus |-> surplus]

\* surplusOf with the first surplus token dropped.
surplusOfLate(rest, i) == IF Len(rest) > i THEN From(rest, i + 1) ELSE <<>>

\* The tokens beyond the declared slots.
surplusOf(rest, i) == IF Len(rest) > i THEN From(rest, i) ELSE <<>>

\* The walk over the positional arguments, from slot i (0-based) on.
RECURSIVE argsLoop(_, _, _, _)
argsLoop(c, rest, i, inputs) ==
    IF ~(i < Len(c.Args)) THEN Walked(NilErr, i, inputs, surplusOf(rest, i))
    ELSE IF i < Len(rest) THEN
        LET r == newInput(At(c.Args, i), FromArg(i + 1), At(rest, i))
        IN  IF ~r.ok
            THEN Walked(WrappedError("ArgValueError", At(rest, i)), i, inputs, <<>>)
            ELSE argsLoop(c, rest, i + 1, Append(inputs, r.in))
    ELSE IF At(c.Args, i).IsRequired THEN
        LET missing == missingArgsFrom(c, inputs, i)
        IN  Walked(IF Len(missing) > 0 THEN MissingArgsError(c, missing) ELSE NilErr,
                   missingArgsEnd(c, i), inputs, <<>>)
    ELSE Walked(NilErr, i, inputs, surplusOf(rest, i))

parsePositional(c, rest, inputs) == argsLoop(c, rest, 0, inputs)

\* subcmdArgs with the name of the subcommand left in.
subcmdArgsWhole(rest) == rest

\* The tokens the recursion into a subcommand receives: rest[1:].
subcmdArgs(rest) == Tail(rest)

\* Index (1-based) of the first subcommand named name, or 0.
findSubcmd(c, name) ==
    IF \E k \in 1..Len(c.Subcmds) : c.Subcmds[k].Name = name
    THEN CHOOSE k \in 1..Len(c.Subcmds) :
            /\ c.Subcmds[k].Name = name
            /\ \A j \in 1..(k - 1) : c.Subcmds[j].Name # name
    ELSE 0

\* noSubcmdGiven without the test of IsSubcmdOptional.
noSubcmdGivenStrict(c, errMissingOpts) == ErrNoSubcmd

\* What parse returns when no token is left for the subcommand.
noSubcmdGiven(c, errMissingOpts) ==
    IF c.IsSubcmdOptional THEN NilErr ELSE ErrNoSubcmd

\* subcmdReturn without the test of the error held.
subcmdReturnOwn(errMissingOpts, errFromSubcmd) == errFromSubcmd

\* subcmdReturn without the exception for a help or version request.
subcmdReturnHeld(errMissingOpts, errFromSubcmd) ==
    IF errMissingOpts # NilErr THEN errMissingOpts ELSE errFromSubcmd

\* What parse returns after the recursion into the subcommand.
subcmdReturn(errMissingOpts, errFromSubcmd) ==
    IF errMissingOpts # NilErr /\ errFromSubcmd.type # "HelpOrVersionRequested"
    THEN errMissingOpts
    ELSE errFromSubcmd

\* parse as one function: the Commands from p down, and the error.
Parsed(cmds, err) == [cmds |-> cmds, err |-> err]

RECURSIVE parse(_, _, _, _)
parse(c, e, p, args) ==
    LET d == setDefaults(c, p.Inputs)
        g == grabEnvs(c, e, d.Inputs)
        s == scanOptions(c, args, 0, g.Inputs)
        p1 == [p EXCEPT !.Inputs = s.Inputs]
        errMissingOpts == requiredCheck(c, p1)
        rest == From(args, s.i)
        w == parsePositional(c, rest, s.Inputs)
        sub == findSubcmd(c, rest[1])
    IN  IF d.err # NilErr THEN Parsed(<<[p EXCEPT !.Inputs = d.Inputs]>>, d.err)
        ELSE IF g.err # NilErr THEN Parsed(<<[p EXCEPT !.Inputs = g.Inputs]>>, g.err)
        ELSE IF s.ctl = "return" THEN Parsed(<<p1>>, s.err)
        ELSE IF errMissingOpts # NilErr /\ Len(c.Subcmds) = 0
            THEN Parsed(<<p1>>, errMissingOpts)
        ELSE IF Len(c.Subcmds) = 0
            THEN Parsed(<<[p EXCEPT !.Inputs = w.Inputs, !.Surplus = w.Surplus]>>, w.err)
        ELSE IF Len(rest) < 1 THEN Parsed(<<p1>>, noSubcmdGiven(c, errMissingOpts))
        ELSE IF sub = 0 THEN Parsed(<<p1>>, UnknownSubcmdError(c, rest[1]))
        ELSE LET r == parse(c.Subcmds[sub], e, MkCommand(rest[1]), subcmdArgs(rest))
             IN  Parsed(<<p1>> \o r.cmds, subcmdReturn(errMissingOpts, r.err))

\* ------------------------------------------------------------------------
\* Schema preparation
\* ------------------------------------------------------------------------

hasHelpOpt(c) == \E k \in 1..Len(c.Opts) : c.Opts[k].HelpGen # "nil"

\* What the options i < z of c share, by the order of the tests of the
\* loop: "" when nothing.
optClash(c, i, z) ==
    IF c.Opts[i].ID = c.Opts[z].ID THEN "duplicate option ids"
    ELSE IF c.Opts[i].NameShort # NUL /\ c.Opts[i].NameShort = c.Opts[z].NameShort
        THEN "duplicate option short name"
    ELSE IF c.Opts[i].NameLong # <<>> /\ c.Opts[i].NameLong = c.Opts[z].NameLong
        THEN "duplicate option long name"
    ELSE ""

\* The pair of S the nested loops over i and z > i reach first.
FirstPair(S) ==
    CHOOSE p \in S : \A q \in S : p[1] < q[1] \/ (p[1] = q[1] /\ p[2] <= q[2])

Pairs(n) == {p \in (1..n) \X (1..n) : p[1] < p[2]}

NoSchemaError == [what |-> "", dup |-> <<>>]

\* The first schema error of c alone: what is duplicated, and the duplicate.
schemaError(c) ==
    LET optPairs == {p \in Pairs(Len(c.Opts)) : optClash(c, p[1], p[2]) # ""}
        argPairs == {p \in Pairs(Len(c.Args)) : c.Args[p[1]].ID = c.Args[p[2]].ID}
        subPairs == {p \in Pairs(Len(c.Subcmds)) :
                        c.Subcmds[p[1]].Name = c.Subcmds[p[2]].Name}
    IN  IF optPairs # {} THEN
            LET i == FirstPair(optPairs)[1]
                what == optClash(c, i, FirstPair(optPairs)[2])
            IN  [what |-> what,
                 dup |-> IF what = "duplicate option ids" THEN c.Opts[i].ID
                         ELSE IF what = "duplicate option short name"
                             THEN <<c.Opts[i].NameShort>>
                         ELSE c.Opts[i].NameLong]
        ELSE IF argPairs # {} THEN
            [what |-> "duplicate argument ids", dup |-> c.Args[FirstPair(argPairs)[1]].ID]
        ELSE IF subPairs # {} THEN
            [what |-> "duplicate subcommand name",
             dup |-> c.Subcmds[FirstPair(subPairs)[1]].Name]
        ELSE NoSchemaError

\* panic("command '" + strings.Join(c.Path, " ") + "' contains " + what +
\* " '" + dup + "'")
PanickedDup(c, what, dup) ==
    [c EXCEPT !.panic = what, !.panicPath = c.Path, !.panicDup = dup]

\* The default help option added whether or not c has a help option.
withHelpOptAlways(c) == Opt(c, DefaultHelpInput)

\* c with the default help option added unless it has a help option.
withHelpOpt(c) == IF hasHelpOpt(c) THEN c ELSE Opt(c, DefaultHelpInput)

RECURSIVE prepareAndValidate(_)
RECURSIVE prepareSubcmds(_, _)

\* The loop of prepareAndValidate over c.Subcmds, from index k (1-based);
\* a panic below ends it.
prepareSubcmds(c, k) ==
    IF k > Len(c.Subcmds) THEN c
    ELSE LET sc == prepareAndValidate(c.Subcmds[k])
             c1 == [c EXCEPT !.Subcmds[k] =
                        [sc EXCEPT !.panic = "", !.panicPath = <<>>, !.panicDup = <<>>]]
         IN  IF sc.panic # ""
             THEN [c1 EXCEPT !.panic = sc.panic, !.panicPath = sc.panicPath,
                             !.panicDup = sc.panicDup]
             ELSE prepareSubcmds(c1, k + 1)

prepareAndValidate(c) ==
    LET c1 == withHelpOpt(c)
    IN  IF schemaError(c1) # NoSchemaError
        THEN PanickedDup(c1, schemaError(c1).what, schemaError(c1).dup)
        ELSE prepareSubcmds(c1, 1)

\* ------------------------------------------------------------------------
\* The builder on Go slices
\* ------------------------------------------------------------------------

\* Above, Opts, Args and Subcmds are the sequences one chain of builder calls
\* on one value leaves.  Here they are Go slices: a slice is the backing array
\* it points into (arr, 0 for nil) and its length; the heap is the sequence of
\* the backing arrays, each with its capacity and the cells written so far.
\* A CommandInfo held this way has slices in its fields Opts, Args, Subcmds.

\* make([]InputInfo, 0, 5) in NewCmd.
OptsCap == 5

NilSlice == [arr |-> 0, len |-> 0]

capOf(h, s) == IF s.arr = 0 THEN 0 ELSE h[s.arr].cap

\* The elements of slice s.
elems(h, s) == IF s.arr = 0 THEN <<>> ELSE SubSeq(h[s.arr].cells, 1, s.len)

\* The capacity of the array append allocates when the old one is full: the
\* new length if that is more than double the old capacity, double otherwise.
growCap(oldCap, newLen) == IF newLen > 2 * oldCap THEN newLen ELSE 2 * oldCap

\* append(s, x): within the capacity x is written into the backing array of
\* s, whoever else points into it; beyond it the elements move to a new array.
append(h, s, x) ==
    IF s.len < capOf(h, s)
    THEN [heap |-> [h EXCEPT ![s.arr].cells =
                        IF s.len < Len(@) THEN [@ EXCEPT ![s.len + 1] = x]
                        ELSE Append(@, x)],
          slice |-> [s EXCEPT !.len = @ + 1]]
    ELSE [heap |-> Append(h, [cap |-> growCap(capOf(h, s), s.len + 1),
                              cells |-> Append(elems(h, s), x)]),
          slice |-> [arr |-> Len(h) + 1, len |-> s.len + 1]]

\* The CommandInfo c as the sequences its slices hold.
RECURSIVE View(_, _)
View(h, c) ==
    [c EXCEPT !.Opts = elems(h, c.Opts),
              !.Args = elems(h, c.Args),
              !.Subcmds = [k \in 1..c.Subcmds.len |-> View(h, h[c.Subcmds.arr].cells[k])]]

\* What a call leaves: the heap, the value it returned and the panic it
\* raised ("" when none).
Called(h, val, panic) == [heap |-> h, val |-> val, panic |-> panic]

newCmdOn(h, name) ==
    IF NewCmd(name).panic # "" THEN Called(h, NewCmd(name), NewCmd(name).panic)
    ELSE Called(Append(h, [cap |-> OptsCap, cells |-> <<>>]),
                [NewCmd(name) EXCEPT !.Opts = [arr |-> Len(h) + 1, len |-> 0],
                                     !.Args = NilSlice, !.Subcmds = NilSlice],
                "")

\* c.Opts = append(c.Opts, o)
optOn(h, c, o) ==
    IF Opt(View(h, c), o).panic # "" THEN Called(h, c, Opt(View(h, c), o).panic)
    ELSE Called(append(h, c.Opts, o).heap,
                [c EXCEPT !.Opts = append(h, c.Opts, o).slice], "")

\* c.Args = append(c.Args, a)
argOn(h, c, a) ==
    IF Arg(View(h, c), a).panic # "" THEN Called(h, c, Arg(View(h, c), a).panic)
    ELSE Called(append(h, c.Args, a).heap,
                [c EXCEPT !.Args = append(h, c.Args, a).slice], "")

\* c.Subcmds = append(c.Subcmds, sc), sc with its Path set
subcmdOn(h, c, sc) ==
    LET sc1 == [sc EXCEPT !.Path = Append(c.Path, sc.Name)]
    IN  IF Subcmd(View(h, c), View(h, sc)).panic # ""
        THEN Called(h, c, Subcmd(View(h, c), View(h, sc)).panic)
        ELSE Called(append(h, c.Subcmds, sc1).heap,
                    [c EXCEPT !.Subcmds = append(h, c.Subcmds, sc1).slice], "")

\* What prepareAndValidate leaves: the heap and its panic.
Prepared(h, what, path, dup) == [heap |-> h, panic |-> what, panicPath |-> path, panicDup |-> dup]

\* prepareAndValidate on the CommandInfo in cell k of array a (its receiver
\* is a pointer), then on its subcommands from index n on, in their cells.
RECURSIVE prepareAt(_, _, _)
RECURSIVE prepareSubcmdsAt(_, _, _)
prepareSubcmdsAt(h, s, n) ==
    IF n > s.len THEN Prepared(h, "", <<>>, <<>>)
    ELSE IF prepareAt(h, s.arr, n).panic # "" THEN prepareAt(h, s.arr, n)
    ELSE prepareSubcmdsAt(prepareAt(h, s.arr, n).heap, s, n + 1)

prepareAt(h, a, k) ==
    LET c0 == h[a].cells[k]
        r == IF hasHelpOpt(View(h, c0)) THEN Called(h, c0, "")
             ELSE optOn(h, c0, DefaultHelpInput)
        h1 == [r.heap EXCEPT ![a].cells[k] = r.val]
        e == schemaError(View(h1, r.val))
    IN  IF e # NoSchemaError THEN Prepared(h1, e.what, r.val.Path, e.dup)
        ELSE prepareSubcmdsAt(h1, r.val.Subcmds, 1)

\* prepareAndValidate on the CommandInfo in cell k of array a from the test
\* of hasHelpOpt on, the loop over c.Opts having left hasHelp.
prepareFrom(h, a, k, hasHelp) ==
    LET c0 == h[a].cells[k]
        r == IF hasHelp THEN Called(h, c0, "") ELSE optOn(h, c0, DefaultHelpInput)
        h1 == [r.heap EXCEPT ![a].cells[k] = r.val]
        e == schemaError(View(h1, r.val))
    IN  IF e # NoSchemaError THEN Prepared(h1, e.what, r.val.Path, e.dup)
        ELSE prepareSubcmdsAt(h1, r.val.Subcmds, 1)

\* ------------------------------------------------------------------------
\* The schemas, environments and tokens of the model
\* ------------------------------------------------------------------------

\* Stacked short options, attached values, the three sources of a value,
\* positional arguments and surplus.
CmdStacks ==
    Arg(Arg(Opt(Opt(Opt(NewCmd(<<"p">>),
        Short(NewBoolOpt(<<"b", "b">>), "b")),
        Default(Env(Short(NewOpt(<<"a", "a">>), "a"), <<"A">>), <<"f">>)),
        NewBoolOpt(<<"c">>)),
        Env(NewArg(<<"x">>), <<"X">>)),
        Default(NewArg(<<"y">>), <<"f">>))

\* Subcommands three levels deep, required options on the ancestors, an
\* optional subcommand, a subcommand named "-", help and version options.
CmdLeaf ==
    Arg(Opt(Opt(NewCmd(<<"t">>),
        NewBoolOpt(<<"b">>)),
        WithVersioner(NewBoolOpt(<<"v">>), "Versioner")),
        NewArg(<<"x">>))

CmdMid ==
    SubcmdOptional(Subcmd(Opt(NewCmd(<<"s">>),
        Required(NewBoolOpt(<<"q">>))),
        CmdLeaf))

CmdHyphen == Opt(NewCmd(<<"-">>), NewOpt(<<"b">>))

CmdTree ==
    Subcmd(Subcmd(Opt(NewCmd(<<"r">>),
        Env(Required(NewOpt(<<"r", "r">>)), <<"R">>)),
        CmdMid),
        CmdHyphen)

\* Short names that are '=' and '-'.
CmdOdd ==
    Arg(Opt(Opt(Opt(Opt(NewCmd(<<"e">>),
        NewBoolOpt(<<"b">>)),
        ShortOnly(NewBoolOpt(<<"e", "q">>), "=")),
        ShortOnly(NewBoolOpt(<<"h", "y">>), "-")),
        NewOpt(<<"a">>)),
        NewArg(<<"x">>))

\* Value parsers and a non-boolean version option.
CmdTyped ==
    Arg(Opt(Opt(Opt(NewCmd(<<"d">>),
        NewIntOpt(<<"n">>)),
        WithVersioner(NewOpt(<<"w">>), "Versioner")),
        WithParser(NewBoolOpt(<<"k">>), "ParseInt")),
        WithParser(NewArg(<<"x">>), "ParseInt"))

\* Required positional arguments, one with an environment variable and a
\* display name of its own, one with a default, and an optional one.
CmdArgs ==
    Arg(Arg(Arg(Arg(Opt(NewCmd(<<"g">>),
        NewBoolOpt(<<"b">>)),
        Required(Env(WithValueName(NewArg(<<"x">>), <<"f", "i", "l", "e">>), <<"X">>))),
        Required(NewArg(<<"y">>))),
        Required(Default(NewArg(<<"z">>), <<"f">>))),
        NewArg(<<"w">>))

\* An option and a positional argument with one ID.
CmdDupIDs ==
    Arg(Opt(NewCmd(<<"u">>),
        NewOpt(<<"x">>)),
        Required(NewArg(<<"x">>)))

\* Schemas with a duplicate: two subcommands named n two levels below the
\* root; two options with one short name, below one that shares nothing; two
\* options with one long name and, later in the loop, two with one ID; two
\* positional arguments with one ID, in a subcommand; an option whose ID is
\* that of the default help option.
CmdDups ==
    { Subcmd(NewCmd(<<"r">>),
        Subcmd(NewCmd(<<"s">>),
            Subcmd(Subcmd(NewCmd(<<"t">>), NewCmd(<<"n">>)), NewCmd(<<"n">>)))),
      Opt(Opt(Opt(NewCmd(<<"r">>),
        NewOpt(<<"c">>)),
        Short(NewOpt(<<"a", "a">>), "a")),
        Short(NewOpt(<<"b", "b">>), "a")),
      Opt(Opt(Opt(NewCmd(<<"r">>),
        Long(NewOpt(<<"a">>), <<"l", "l">>)),
        Long(NewOpt(<<"b">>), <<"l", "l">>)),
        NewOpt(<<"b">>)),
      Subcmd(NewCmd(<<"r">>),
        Arg(Arg(NewCmd(<<"s">>), NewArg(<<"x">>)), NewArg(<<"x">>))),
      Opt(NewCmd(<<"r">>), NewOpt(<<"h", "e", "l", "p">>)) }

\* Environment variables bound to a string option, an integer option, a
\* boolean option and an integer positional argument.
CmdEnv ==
    Arg(Opt(Opt(Opt(NewCmd(<<"v">>),
        Env(NewOpt(<<"s">>), <<"S">>)),
        Env(NewIntOpt(<<"n">>), <<"N">>)),
        Env(NewBoolOpt(<<"k">>), <<"K">>)),
        Env(WithParser(NewArg(<<"x">>), "ParseInt"), <<"X">>))

\* A help option of the user's own, integer-valued, on a command with a
\* required option and a subcommand that has no help option.
CmdHelp ==
    Subcmd(Opt(Opt(Opt(NewCmd(<<"m">>),
        NewBoolOpt(<<"b">>)),
        WithHelpGen(NewIntOpt(<<"u">>), "UserHelpGenerator")),
        Required(NewBoolOpt(<<"q">>))),
        Arg(NewCmd(<<"n">>), NewArg(<<"x">>)))

\* An integer default that parses, and one that does not.
CmdDefaults ==
    Opt(Opt(NewCmd(<<"f">>),
        Default(NewIntOpt(<<"n">>), <<"1">>)),
        Default(NewIntOpt(<<"o">>), <<"z">>))

EnvOf(name, val) == (name :> [set |-> TRUE, val |-> val])
NoEnv == <<>>

Scenarios ==
    { [schema |-> CmdStacks,
       envs |-> {NoEnv, EnvOf(<<"A">>, <<"1">>),
                 EnvOf(<<"A">>, <<"1">>) @@ EnvOf(<<"X">>, <<"f">>)},
       tokens |-> {<<"-", "b", "c">>, <<"-", "b">>, <<"-", "a", "1">>, <<"-", "a">>,
                   <<"-", "a", "=", "1">>, <<"1">>, <<"-", "b", "z">>,
                   <<"-", "-", "z", "z", "=", "1">>}],
      [schema |-> CmdStacks,
       envs |-> {NoEnv},
       tokens |-> {<<"-", "-">>, <<"-">>, <<"-", "c", "a">>, <<"1">>, <<"-", "z">>,
                   <<"-", "-", "a", "a">>, <<"-", "-", "b", "b">>, <<"-", "b", "h">>,
                   <<"-", "-", "b">>}],
      [schema |-> CmdTree,
       envs |-> {NoEnv, EnvOf(<<"R">>, <<"1">>)},
       tokens |-> {<<"-", "-", "r", "r", "=", "1">>, <<"s">>, <<"t">>, <<"-", "h">>,
                   <<"-", "q">>, <<"-">>, <<"-", "v">>, <<"-", "-">>}],
      [schema |-> CmdOdd,
       envs |-> {NoEnv},
       tokens |-> {<<"-", "b", "=">>, <<"-", "b">>, <<"-", "=">>, <<"-", "b", "-">>,
                   <<"-", "-">>, <<"-", "a", "=", "1">>, <<"-", "a">>, <<"=", "1">>,
                   <<"-", "a", "=", "=", "1">>}],
      [schema |-> CmdTyped,
       envs |-> {NoEnv},
       tokens |-> {<<"-", "n", "1">>, <<"-", "n">>, <<"-", "n", "z">>, <<"1">>,
                   <<"z">>, <<"-", "w", "1">>, <<"-", "k">>, <<"-", "k", "=", "1">>}],
      [schema |-> CmdArgs,
       envs |-> {NoEnv, EnvOf(<<"X">>, <<"1">>)},
       tokens |-> {<<"1">>, <<"f">>, <<"-", "b">>, <<"-", "-">>}],
      [schema |-> CmdDupIDs,
       envs |-> {NoEnv},
       tokens |-> {<<"1">>, <<"-", "x">>}],
      [schema |-> CmdEnv,
       envs |-> {NoEnv, EnvOf(<<"S">>, <<>>), EnvOf(<<"N">>, <<>>),
                 EnvOf(<<"S">>, <<"z">>) @@ EnvOf(<<"N">>, <<"1">>),
                 EnvOf(<<"N">>, <<"1">>) @@ EnvOf(<<"X">>, <<"z">>),
                 EnvOf(<<"K">>, <<>>) @@ EnvOf(<<"X">>, <<"1">>),
                 EnvOf(<<"K">>, <<"z">>)},
       tokens |-> {<<"1">>, <<"-", "n", "=", "1">>}],
      [schema |-> CmdHelp,
       envs |-> {NoEnv},
       tokens |-> {<<"-", "u">>, <<"1">>, <<"z">>, <<"n">>, <<"-", "h">>, <<"-", "b", "u">>,
                   <<"-", "b", "u", "1">>, <<"-", "u", "=", "z">>, <<"-", "q">>}] }
    \cup { [schema |-> c, envs |-> {NoEnv}, tokens |-> {<<"s">>}] :
                c \in CmdDups \cup {CmdDefaults} }

\* The argument lists of at most MaxArgs tokens.
ArgLists(tokens) == UNION { [1..n -> tokens] : n \in 0..MaxArgs }

\* ------------------------------------------------------------------------
\* State
\* ------------------------------------------------------------------------

VARIABLES
    schema,   \* the root CommandInfo the program built
    env,      \* the process environment
    args,     \* the arguments of the ParseThese call
    pc,       \* "idle", "running", "done" or "panic"
    frames,   \* the calls of parse of this ParseThese, the root call first
    sp,       \* how many of them have not returned: frames[sp] is running
    cmds,     \* the Commands of the result: cmds[k + 1] is cmds[k].Subcmd
    err,      \* the error ParseThese returned
    heap,     \* the backing arrays of the slices of the schemas being built
    todo,     \* the builder calls the program has yet to make
    ncalls,   \* how many calls it made beyond those
    bpc,      \* "run", "panic" or "exit" while schemas are built, else "off"
    call,     \* the last call made and what came of it
    parsed,   \* per variable, the parse calls made on it since the last builder call
    threads   \* per thread calling ParseThese: where it stands, and its locals

\* The variables of one ParseThese call, and those of the building of schemas.
pvars == <<schema, env, args, pc, frames, sp, cmds, err>>
bvars == <<heap, todo, ncalls, bpc, call, parsed, threads>>
vars ==
    <<schema, env, args, pc, frames, sp, cmds, err, heap, todo, ncalls, bpc, call, parsed,
      threads>>

\* A call of parse: its arguments c and args, its locals i, rest and
\* errMissingOpts, where it stands (phase) and, once it has returned, what
\* it returned (err).  Its p is cmds[k] for the k-th frame.  A frame is kept
\* after its call has returned, as the record of what the call returned.
Frame(c, a) ==
    [c |-> c, args |-> a, i |-> 0, rest |-> <<>>, phase |-> "defaults",
     errMissingOpts |-> NilErr, err |-> NilErr]

Init ==
    /\ \E sc \in Scenarios :
        /\ schema = sc.schema
        /\ env \in sc.envs
        /\ args \in ArgLists(sc.tokens)
    /\ pc = "idle"
    /\ frames = <<>>
    /\ sp = 0
    /\ cmds = <<>>
    /\ err = NilErr
    /\ heap = <<>> /\ todo = <<>> /\ ncalls = 0 /\ bpc = "off"
    /\ call = <<>> /\ parsed = <<>> /\ threads = <<>>

depth == sp
cur == frames[depth]
curCmd == cmds[depth]

Running(phase) == pc = "running" /\ depth > 0 /\ cur.phase = phase

\* The top frame returns e.
Returns(fr, e) == [fr EXCEPT !.phase = "ret", !.err = e]

\* The top frame and its Command replaced.
SetTop(fr, cmd) ==
    /\ frames' = [frames EXCEPT ![depth] = fr]
    /\ cmds' = [cmds EXCEPT ![depth] = cmd]

\* ------------------------------------------------------------------------
\* Actions
\* ------------------------------------------------------------------------

\* ParseThese up to its call of parse: the schema is prepared unless it
\* already is, and a panic of the preparation ends the call.
ParseThese ==
    /\ pc = "idle"
    /\ LET prepped == IF schema.isPrepped THEN schema ELSE prepareAndValidate(schema)
       IN  IF prepped.panic # ""
           THEN /\ schema' = prepped
                /\ pc' = "panic"
                /\ UNCHANGED <<frames, sp, cmds>>
           ELSE /\ schema' = [prepped EXCEPT !.isPrepped = TRUE]
                /\ pc' = "running"
                /\ frames' = <<Frame(schema', args)>>
                /\ sp' = 1
                /\ cmds' = <<MkCommand(<<>>)>>
    /\ UNCHANGED <<env, args, err>>
    /\ UNCHANGED bvars

\* parse: "set any defaults".
SetDefaults ==
    /\ Running("defaults")
    /\ LET o == setDefaults(cur.c, curCmd.Inputs)
       IN  SetTop(IF o.err # NilErr THEN Returns(cur, o.err)
                  ELSE [cur EXCEPT !.phase = "envs"],
                  [curCmd EXCEPT !.Inputs = o.Inputs])
    /\ UNCHANGED <<schema, env, args, pc, sp, err>>
    /\ UNCHANGED bvars

\* parse: "grab any envs".
GrabEnvs ==
    /\ Running("envs")
    /\ LET o == grabEnvs(cur.c, env, curCmd.Inputs)
       IN  SetTop(IF o.err # NilErr THEN Returns(cur, o.err)
                  ELSE [cur EXCEPT !.phase = "scan"],
                  [curCmd EXCEPT !.Inputs = o.Inputs])
    /\ UNCHANGED <<schema, env, args, pc, sp, err>>
    /\ UNCHANGED bvars

\* One iteration of the option loop, on the token at the cursor.
ScanStep ==
    /\ LET o == scanOne(cur.c, cur.args, cur.i, curCmd.Inputs)
       IN  SetTop(IF o.ctl = "return" THEN Returns([cur EXCEPT !.i = o.i], o.err)
                  ELSE IF o.ctl = "break" THEN [cur EXCEPT !.i = o.i, !.phase = "required"]
                  ELSE [cur EXCEPT !.i = o.i],
                  [curCmd EXCEPT !.Inputs = o.Inputs])
    /\ UNCHANGED <<schema, env, args, pc, sp, err>>
    /\ UNCHANGED bvars

\* The loop ends: no token is left, or the next one is no option.
ScanEnd ==
    /\ Running("scan")
    /\ tokenKind(cur.args, cur.i) \in {"end", "positional"}
    /\ ScanStep

\* The token is just "-".
ScanHyphen ==
    /\ Running("scan")
    /\ tokenKind(cur.args, cur.i) = "hyphen"
    /\ ScanStep

\* The token is just "--".
ScanDashDash ==
    /\ Running("scan")
    /\ tokenKind(cur.args, cur.i) = "dashdash"
    /\ ScanStep

\* The token is a stack of short options, or a short option and its value.
ScanCluster ==
    /\ Running("scan")
    /\ tokenKind(cur.args, cur.i) = "cluster"
    /\ ScanStep

\* The token is one option, with or without "=value".
ScanNamed ==
    /\ Running("scan")
    /\ tokenKind(cur.args, cur.i) = "named"
    /\ ScanStep

\* parse: "check that all required options were provided".
CheckRequired ==
    /\ Running("required")
    /\ LET e == requiredCheck(cur.c, curCmd)
       IN  frames' = [frames EXCEPT ![depth] =
                IF e # NilErr /\ Len(cur.c.Subcmds) = 0 THEN Returns(cur, e)
                ELSE [cur EXCEPT !.errMissingOpts = e,
                                 !.rest = From(cur.args, cur.i),
                                 !.phase = "dispatch"]]
    /\ UNCHANGED <<schema, env, args, pc, sp, cmds, err>>
    /\ UNCHANGED bvars

\* parse of a command without subcommands: the positional arguments and
\* the surplus.
ParsePositional ==
    /\ Running("dispatch")
    /\ Len(cur.c.Subcmds) = 0
    /\ LET w == parsePositional(cur.c, cur.rest, curCmd.Inputs)
       IN  SetTop(Returns([cur EXCEPT !.i = w.i], w.err),
                  [curCmd EXCEPT !.Inputs = w.Inputs, !.Surplus = w.Surplus])
    /\ UNCHANGED <<schema, env, args, pc, sp, err>>
    /\ UNCHANGED bvars

\* parse of a command with subcommands: no token is left.
NoSubcmd ==
    /\ Running("dispatch")
    /\ Len(cur.c.Subcmds) > 0
    /\ Len(cur.rest) < 1
    /\ frames' = [frames EXCEPT ![depth] =
            Returns(cur, noSubcmdGiven(cur.c, cur.errMissingOpts))]
    /\ UNCHANGED <<schema, env, args, pc, sp, cmds, err>>
    /\ UNCHANGED bvars

\* parse of a command with subcommands: the token names none of them.
UnknownSubcmd ==
    /\ Running("dispatch")
    /\ Len(cur.c.Subcmds) > 0
    /\ ~(Len(cur.rest) < 1)
    /\ findSubcmd(cur.c, cur.rest[1]) = 0
    /\ frames' = [frames EXCEPT ![depth] =
            Returns(cur, UnknownSubcmdError(cur.c, cur.rest[1]))]
    /\ UNCHANGED <<schema, env, args, pc, sp, cmds, err>>
    /\ UNCHANGED bvars

\* parse of a command with subcommands: the recursion into the one named.
EnterSubcmd ==
    /\ Running("dispatch")
    /\ Len(cur.c.Subcmds) > 0
    /\ ~(Len(cur.rest) < 1)
    /\ findSubcmd(cur.c, cur.rest[1]) # 0
    /\ frames' = Append([frames EXCEPT ![depth] = [cur EXCEPT !.phase = "wait"]],
                        Frame(cur.c.Subcmds[findSubcmd(cur.c, cur.rest[1])],
                              subcmdArgs(cur.rest)))
    /\ cmds' = Append(cmds, MkCommand(cur.rest[1]))
    /\ sp' = sp + 1
    /\ UNCHANGED <<schema, env, args, pc, err>>
    /\ UNCHANGED bvars

\* The recursion returns to the parse that made it.
ReturnFromSubcmd ==
    /\ Running("ret")
    /\ depth > 1
    /\ frames' = [frames EXCEPT ![depth - 1] =
            Returns(@, subcmdReturn(@.errMissingOpts, cur.err))]
    /\ sp' = sp - 1
    /\ UNCHANGED <<schema, env, args, pc, cmds, err>>
    /\ UNCHANGED bvars

\* The root parse returns, and ParseThese with it.
ReturnToCaller ==
    /\ Running("ret")
    /\ depth = 1
    /\ err' = cur.err
    /\ pc' = "done"
    /\ sp' = 0
    /\ UNCHANGED <<schema, env, args, frames, cmds>>
    /\ UNCHANGED bvars

Next ==
    \/ ParseThese
    \/ SetDefaults
    \/ GrabEnvs
    \/ ScanEnd
    \/ ScanHyphen
    \/ ScanDashDash
    \/ ScanCluster
    \/ ScanNamed
    \/ CheckRequired
    \/ ParsePositional
    \/ NoSubcmd
    \/ UnknownSubcmd
    \/ EnterSubcmd
    \/ ReturnFromSubcmd
    \/ ReturnToCaller

Spec == Init /\ [][Next]_vars

\* The step machine and parse as one function agree.
StepsAgreeWithParse ==
    pc = "done" =>
        Parsed(cmds, err) = parse(schema, env, MkCommand(<<>>), args)

\* ------------------------------------------------------------------------
\* The building of schemas
\* ------------------------------------------------------------------------

\* The most CommandInfo variables a program holds, and the most calls it
\* makes beyond those of its script.
MaxVars == 5
MaxCalls == 2

\* heap[1] holds the CommandInfo variables of the program, heap[2] the copy of
\* its receiver that a method with a value receiver works on.
nvars == Len(heap[1].cells)
var(k) == heap[1].cells[k]

\* d = val, for the d-th variable of the program (a new one when d = nvars + 1).
setVar(h, d, val) ==
    [h EXCEPT ![1].cells = IF d > Len(@) THEN Append(@, val) ELSE [@ EXCEPT ![d] = val]]

\* One call of a program: variable dst = NewCmd(name), or
\* dst = src.Opt(in), src.Arg(in) or src.Subcmd(variable j), or
\* src.ParseThese(args...) or src.ParseTheseOrExit(args...).
Ins(op, src, dst, name, in, j, a) ==
    [op |-> op, src |-> src, dst |-> dst, name |-> name, in |-> in, j |-> j, args |-> a]

InsNewCmd(dst, name) == Ins("NewCmd", 0, dst, name, InputInfoOf(<<>>), 0, <<>>)
InsInput(op, src, dst, in) == Ins(op, src, dst, <<>>, in, 0, <<>>)
InsSubcmd(src, dst, j) == Ins("Subcmd", src, dst, <<>>, InputInfoOf(<<>>), j, <<>>)
InsParse(op, src, a) == Ins(op, src, src, <<>>, InputInfoOf(<<>>), 0, a)

\* The programs of the model, up to the calls left open:
\*   one command;
\*   a command r with five required arguments, r2 = r.Arg(z) and
\*   r3 = r2.Arg(y), both required;
\*   a command s and s2 = s.Opt(x), a = NewCmd("a").Subcmd(s2),
\*   b = NewCmd("b").Subcmd(s) and r = NewCmd("r").Subcmd(a).Subcmd(b).
Scripts ==
    { <<InsNewCmd(1, <<"r">>)>>,
      <<InsNewCmd(1, <<"r">>),
        InsInput("Arg", 1, 1, Required(NewArg(<<"a", "1">>))),
        InsInput("Arg", 1, 1, Required(NewArg(<<"a", "2">>))),
        InsInput("Arg", 1, 1, Required(NewArg(<<"a", "3">>))),
        InsInput("Arg", 1, 1, Required(NewArg(<<"a", "4">>))),
        InsInput("Arg", 1, 1, Required(NewArg(<<"a", "5">>))),
        InsInput("Arg", 1, 2, Required(NewArg(<<"z">>))),
        InsInput("Arg", 2, 3, Required(NewArg(<<"y">>)))>>,
      <<InsNewCmd(1, <<"s">>),
        InsInput("Opt", 1, 2, NewOpt(<<"x">>)),
        InsNewCmd(3, <<"a">>),
        InsSubcmd(3, 3, 2),
        InsNewCmd(4, <<"b">>),
        InsSubcmd(4, 4, 1),
        InsNewCmd(5, <<"r">>),
        InsSubcmd(5, 5, 3),
        InsSubcmd(5, 5, 4)>> }

\* The inputs and argument lists of the calls left open; among the inputs an
\* option, and a positional argument, that Arg, and Opt, refuse.
BuildInputs == {NewOpt(<<"x">>), NewOpt(<<"y">>), Required(NewArg(<<"p">>)), NewArg(<<"q">>)}
BuildNames == {<<"c">>, <<>>}
BuildArgLists ==
    {<<>>, << <<"a">>, <<"s">> >>, << <<"a">>, <<"z">> >>, << <<"-">> >>, << <<"-", "-">> >>,
     << <<"-", "x", "h">> >>, << <<"-", "-", "h", "e", "l", "p">> >>}

\* Where the result of a call on variable k may go: back to k, or to a new
\* variable.
Dsts(k) == {k} \cup (IF nvars < MaxVars THEN {nvars + 1} ELSE {})

\* The calls left open.
FreeIns(op) ==
    IF op = "NewCmd"
        THEN {InsNewCmd(nvars + 1, n) : n \in IF nvars < MaxVars THEN BuildNames ELSE {}}
    ELSE IF op \in {"Opt", "Arg"}
        THEN UNION {{InsInput(op, k, d, in) : d \in Dsts(k), in \in BuildInputs} : k \in 1..nvars}
    ELSE IF op = "Subcmd"
        THEN UNION {{InsSubcmd(k, d, j) : d \in Dsts(k), j \in 1..nvars} : k \in 1..nvars}
    ELSE {InsParse(op, k, a) : k \in 1..nvars, a \in BuildArgLists}

\* The calls the program may make next: the next one of its script, or when
\* that is done one of those left open.
NextIns(op) ==
    IF Len(todo) > 0 THEN (IF Head(todo).op = op THEN {Head(todo)} ELSE {})
    ELSE IF ncalls < MaxCalls THEN FreeIns(op)
    ELSE {}

NoCall ==
    [op |-> "", src |-> 0, dst |-> 0, panic |-> "", panicPath |-> <<>>,
     panicDup |-> <<>>, err |-> NilErr]

\* No program of one ParseThese call runs while schemas are built.
BuildInit ==
    /\ heap = <<[cap |-> MaxVars, cells |-> <<>>], [cap |-> 1, cells |-> <<>>]>>
    /\ todo \in Scripts
    /\ ncalls = 0
    /\ bpc = "run"
    /\ call = NoCall
    /\ parsed = [k \in 1..MaxVars |-> 0]
    /\ threads = <<>>
    /\ schema = NewCmd(<<"r">>) /\ env = NoEnv /\ args = <<>>
    /\ pc = "idle" /\ frames = <<>> /\ sp = 0 /\ cmds = <<>> /\ err = NilErr

\* The program goes on to its next call.
Advance ==
    IF Len(todo) > 0 THEN todo' = Tail(todo) /\ ncalls' = ncalls
    ELSE todo' = todo /\ ncalls' = ncalls + 1

\* The builder call ins was made and left r: its result is assigned, or its
\* panic ends the program.
Built(ins, r) ==
    /\ IF r.panic # "" THEN bpc' = "panic" /\ heap' = heap
       ELSE bpc' = "run" /\ heap' = setVar(r.heap, ins.dst, r.val)
    /\ call' = [NoCall EXCEPT !.op = ins.op, !.src = ins.src, !.dst = ins.dst,
                              !.panic = r.panic]
    /\ parsed' = [k \in 1..MaxVars |-> 0]
    /\ Advance
    /\ UNCHANGED pvars
    /\ UNCHANGED threads

CallNewCmd ==
    /\ bpc = "run"
    /\ \E ins \in NextIns("NewCmd") : Built(ins, newCmdOn(heap, ins.name))

CallOpt ==
    /\ bpc = "run"
    /\ \E ins \in NextIns("Opt") : Built(ins, optOn(heap, var(ins.src), ins.in))

CallArg ==
    /\ bpc = "run"
    /\ \E ins \in NextIns("Arg") : Built(ins, argOn(heap, var(ins.src), ins.in))

CallSubcmd ==
    /\ bpc = "run"
    /\ \E ins \in NextIns("Subcmd") :
            Built(ins, subcmdOn(heap, var(ins.src), var(ins.j)))

\* ParseThese up to its call of parse, on the CommandInfo in cell k of array
\* a: the preparation unless isPrepped is set, and then isPrepped set.
prepareThese(h, a, k) ==
    LET pr == IF h[a].cells[k].isPrepped THEN Prepared(h, "", <<>>, <<>>)
              ELSE prepareAt(h, a, k)
    IN  IF pr.panic # "" THEN pr
        ELSE [pr EXCEPT !.heap = [pr.heap EXCEPT ![a].cells[k].isPrepped = TRUE]]

\* The parse call ins was made on the CommandInfo in cell k of array a, and
\* pr is what its preparation left: a panic ends the program, and otherwise
\* parse is running on that CommandInfo.
ParseCalled(ins, pr, a, k) ==
    /\ call' = [NoCall EXCEPT !.op = ins.op, !.src = ins.src, !.dst = ins.dst,
                              !.panic = pr.panic, !.panicPath = pr.panicPath,
                              !.panicDup = pr.panicDup]
    /\ parsed' = [parsed EXCEPT ![ins.src] = @ + 1]
    /\ Advance
    /\ UNCHANGED threads
    /\ IF pr.panic # ""
       THEN /\ bpc' = "panic"
            /\ UNCHANGED pvars
       ELSE /\ bpc' = "parse"
            /\ schema' = View(pr.heap, pr.heap[a].cells[k])
            /\ args' = ins.args
            /\ pc' = "running"
            /\ frames' = <<Frame(schema', args')>>
            /\ sp' = 1
            /\ cmds' = <<MkCommand(<<>>)>>
            /\ UNCHANGED <<env, err>>

\* ParseThese has a pointer receiver: it works on the variable itself.
CallParseThese ==
    /\ bpc = "run"
    /\ \E ins \in NextIns("ParseThese") :
        LET pr == prepareThese(heap, 1, ins.src)
        IN  /\ heap' = pr.heap
            /\ ParseCalled(ins, pr, 1, ins.src)

\* ParseTheseOrExit (and ParseOrExit, which hands it os.Args[1:]) has a value
\* receiver: it calls ParseThese on its copy of the variable.
CallParseTheseOrExit ==
    /\ bpc = "run"
    /\ \E ins \in NextIns("ParseTheseOrExit") :
        LET pr == prepareThese([heap EXCEPT ![2].cells = <<var(ins.src)>>], 2, 1)
        IN  /\ heap' = pr.heap
            /\ ParseCalled(ins, pr, 2, 1)

\* parse has returned to ParseThese, and that to the program, unless it was
\* called by ParseTheseOrExit and returned an error: that exits the process.
ParseReturned ==
    /\ bpc = "parse" /\ pc = "done"
    /\ bpc' = IF call.op = "ParseTheseOrExit" /\ err # NilErr THEN "exit" ELSE "run"
    /\ call' = [call EXCEPT !.err = err]
    /\ heap' = [heap EXCEPT ![2].cells = <<>>]
    /\ schema' = NewCmd(<<"r">>) /\ args' = <<>>
    /\ pc' = "idle" /\ frames' = <<>> /\ cmds' = <<>> /\ err' = NilErr
    /\ UNCHANGED <<env, sp, todo, ncalls, parsed, threads>>

BuildNext ==
    \/ CallNewCmd
    \/ CallOpt
    \/ CallArg
    \/ CallSubcmd
    \/ CallParseThese
    \/ CallParseTheseOrExit
    \/ SetDefaults
    \/ GrabEnvs
    \/ ScanEnd
    \/ ScanHyphen
    \/ ScanDashDash
    \/ ScanCluster
    \/ ScanNamed
    \/ CheckRequired
    \/ ParsePositional
    \/ NoSubcmd
    \/ UnknownSubcmd
    \/ EnterSubcmd
    \/ ReturnFromSubcmd
    \/ ReturnToCaller
    \/ ParseReturned

BuildSpec == BuildInit /\ [][BuildNext]_vars

\* ------------------------------------------------------------------------
\* First calls of ParseThese from several threads
\* ------------------------------------------------------------------------

\* The threads that call ParseThese on the last variable of the program.
NThreads == 2
Threads == 1..NThreads

\* A thread: where it stands in ParseThese, the hasHelpOpt of its
\* prepareAndValidate, how often it entered prepareAndValidate, and the
\* panic that ended it.
Thread(at, hasHelp, entered, panic) ==
    [at |-> at, hasHelpOpt |-> hasHelp, entered |-> entered, panic |-> panic]

\* The program builds its schema by its script, and then the threads call.
ConcInit ==
    /\ heap = <<[cap |-> MaxVars, cells |-> <<>>], [cap |-> 1, cells |-> <<>>]>>
    /\ todo \in Scripts
    /\ ncalls = MaxCalls
    /\ bpc = "run"
    /\ call = NoCall
    /\ parsed = [k \in 1..MaxVars |-> 0]
    /\ threads = [t \in Threads |-> Thread("call", FALSE, 0, "")]
    /\ schema = NewCmd(<<"r">>) /\ env = NoEnv /\ args = <<>>
    /\ pc = "idle" /\ frames = <<>> /\ sp = 0 /\ cmds = <<>> /\ err = NilErr

\* Thread t stands at `at` of its ParseThese call, the schema being built.
ThreadAt(t, at) == bpc = "run" /\ todo = <<>> /\ nvars > 0 /\ threads[t].at = at

\* What a step of a thread leaves alone.
ThreadFrame == UNCHANGED <<pvars, todo, ncalls, bpc, call, parsed>>

\* if !in.isPrepped
TestIsPrepped ==
    \E t \in Threads :
        /\ ThreadAt(t, "call")
        /\ threads' = [threads EXCEPT ![t].at = IF var(nvars).isPrepped THEN "parse" ELSE "enter"]
        /\ heap' = heap
        /\ ThreadFrame

\* prepareAndValidate is entered: its loop over c.Opts for a help option.
EnterPrepare ==
    \E t \in Threads :
        /\ ThreadAt(t, "enter")
        /\ threads' = [threads EXCEPT ![t].at = "prepare",
                                      ![t].hasHelpOpt = hasHelpOpt(View(heap, var(nvars))),
                                      ![t].entered = @ + 1]
        /\ heap' = heap
        /\ ThreadFrame

\* The rest of prepareAndValidate: the help option, the checks, the
\* subcommands.
FinishPrepare ==
    \E t \in Threads :
        /\ ThreadAt(t, "prepare")
        /\ LET pr == prepareFrom(heap, 1, nvars, threads[t].hasHelpOpt)
           IN  /\ heap' = pr.heap
               /\ threads' = [threads EXCEPT ![t].at = IF pr.panic # "" THEN "panic" ELSE "mark",
                                             ![t].panic = pr.panic]
        /\ ThreadFrame

\* in.isPrepped = true, and then the call of parse, which reads the schema.
MarkPrepped ==
    \E t \in Threads :
        /\ ThreadAt(t, "mark")
        /\ heap' = [heap EXCEPT ![1].cells[nvars].isPrepped = TRUE]
        /\ threads' = [threads EXCEPT ![t].at = "parse"]
        /\ ThreadFrame

ConcNext ==
    \/ CallNewCmd
    \/ CallOpt
    \/ CallArg
    \/ CallSubcmd
    \/ TestIsPrepped
    \/ EnterPrepare
    \/ FinishPrepare
    \/ MarkPrepped

ConcSpec == ConcInit /\ [][ConcNext]_vars

\* ------------------------------------------------------------------------
\* Vocabulary of the properties
\* ------------------------------------------------------------------------

IsDefaultEntry(in) == in.From.Default
IsEnvEntry(in) == in.From.Env # <<>>
IsArgEntry(in) == in.From.Arg # 0
IsCliEntry(in) == ~IsDefaultEntry(in) /\ ~IsEnvEntry(in)
IsOptEntry(in) == IsCliEntry(in) /\ ~IsArgEntry(in)

DefaultEntries(inputs) == SelectSeq(inputs, IsDefaultEntry)
EnvEntries(inputs) == SelectSeq(inputs, IsEnvEntry)
OptEntries(inputs) == SelectSeq(inputs, IsOptEntry)
ArgEntries(inputs) == SelectSeq(inputs, IsArgEntry)
SeedEntries(inputs) == SelectSeq(inputs, LAMBDA in : ~IsCliEntry(in))
EntriesOf(inputs, id) == SelectSeq(inputs, LAMBDA in : in.ID = id)

\* Default, then environment, then option, then positional argument.
SourceRank(in) ==
    IF IsDefaultEntry(in) THEN 0
    ELSE IF IsEnvEntry(in) THEN 1
    ELSE IF IsOptEntry(in) THEN 2
    ELSE 3

IDsOf(seq) == [k \in 1..Len(seq) |-> seq[k].ID]
IsPrefix(s, t) == Len(s) <= Len(t) /\ s = SubSeq(t, 1, Len(s))

\* The inputs a command declares, options first.
Declared(c) == c.Opts \o c.Args
DeclaredWithDefault(c) == SelectSeq(Declared(c), LAMBDA in : in.HasStrDefault)
DeclaredWithEnv(c, e) ==
    SelectSeq(Declared(c), LAMBDA in : in.EnvVar # <<>> /\ LookupEnv(e, in.EnvVar).set)

\* Command p has no entry for some required option of c.
MissesRequiredOpt(c, p) ==
    \E k \in 1..Len(c.Opts) :
        /\ c.Opts[k].IsRequired
        /\ \A j \in 1..Len(p.Inputs) : p.Inputs[j].ID # c.Opts[k].ID

\* ------------------------------------------------------------------------
\* C1
\* ------------------------------------------------------------------------

\* The order of the Inputs of one command c.
InputsInSourceOrder(c, inputs) ==
    /\ \A j, k \in 1..Len(inputs) : j < k => SourceRank(inputs[j]) <= SourceRank(inputs[k])
    /\ IsPrefix(IDsOf(DefaultEntries(inputs)), IDsOf(DeclaredWithDefault(c)))
    /\ IsPrefix(IDsOf(EnvEntries(inputs)), IDsOf(DeclaredWithEnv(c, env)))
    /\ (\E k \in 1..Len(inputs) : IsCliEntry(inputs[k])) =>
            /\ IDsOf(DefaultEntries(inputs)) = IDsOf(DeclaredWithDefault(c))
            /\ IDsOf(EnvEntries(inputs)) = IDsOf(DeclaredWithEnv(c, env))
    /\ \A k \in 1..Len(ArgEntries(inputs)) :
            /\ ArgEntries(inputs)[k].From.Arg = k
            /\ ArgEntries(inputs)[k].ID = c.Args[k].ID

\* in is declared by c with a default and a set environment variable, and p
\* holds a command line value of it; no other input of c has its ID.
HasAllThreeSources(c, p, in) ==
    /\ in.HasStrDefault
    /\ in.EnvVar # <<>> /\ LookupEnv(env, in.EnvVar).set
    /\ \E k \in 1..Len(p.Inputs) : p.Inputs[k].ID = in.ID /\ IsCliEntry(p.Inputs[k])
    /\ Cardinality({k \in 1..Len(Declared(c)) : Declared(c)[k].ID = in.ID}) = 1

\* The entries of in are [default, env, CLI ...] and Lookup gives the value
\* of the last command line entry.
DefaultEnvCli(p, in) ==
    LET mine == EntriesOf(p.Inputs, in.ID)
        last == mine[Len(mine)]
    IN  /\ Len(mine) >= 3
        /\ mine[1].From = FromDefault /\ mine[1].RawValue = in.StrDefault
        /\ mine[2].From = FromEnv(in.EnvVar)
        /\ mine[2].RawValue = LookupEnv(env, in.EnvVar).val
        /\ \A k \in 3..Len(mine) : IsCliEntry(mine[k])
        /\ last.Value = coerce(in, last.RawValue).val
        /\ Lookup(p, in.ID) = [ok |-> TRUE, val |-> last.Value]

C1State ==
    \A k \in 1..Len(cmds) :
        /\ InputsInSourceOrder(frames[k].c, cmds[k].Inputs)
        /\ \A n \in 1..Len(Declared(frames[k].c)) :
                HasAllThreeSources(frames[k].c, cmds[k], Declared(frames[k].c)[n])
                    => DefaultEnvCli(cmds[k], Declared(frames[k].c)[n])

\* Entries are only ever appended, so the entries of the options are in the
\* order of their tokens.
C1Step == \A k \in 1..Len(cmds) : IsPrefix(cmds[k].Inputs, cmds'[k].Inputs)

\* C1: within the Inputs of one command the default entries come first
\* (options in declaration order, then positional arguments), then the
\* environment entries, then the entries of the command line options in token
\* order, then the positional entries by slot; so an input with a default, a
\* set environment variable and a command line value has the entries
\* [default, env, CLI] in that order and Lookup returns the command line value.
C1 == []C1State /\ [][C1Step]_vars

\* A finished parse where option aa has a default, an environment and a
\* command line entry, and a positional entry follows.
C1Witness ==
    /\ pc = "done" /\ err = NilErr
    /\ Len(EntriesOf(cmds[1].Inputs, <<"a", "a">>)) = 3
    /\ HasAllThreeSources(schema, cmds[1], schema.Opts[2])
    /\ Len(ArgEntries(cmds[1].Inputs)) > 0
    /\ Len(EnvEntries(cmds[1].Inputs)) = 2

\* ------------------------------------------------------------------------
\* C2
\* ------------------------------------------------------------------------

\* C2: when the parse of a subcommand, however deep, returned a help or
\* version request and a command above it misses a required option,
\* ParseThese returns that request and not the MissingOptionsError.
C2 ==
    pc = "done" =>
        \A n \in 2..Len(frames) :
            (/\ frames[n].err.type = "HelpOrVersionRequested"
             /\ \E k \in 1..(n - 1) : MissesRequiredOpt(frames[k].c, cmds[k]))
            => err = frames[n].err

\* The root and its subcommand both miss their required option and the
\* subcommand two levels down was asked for its help or version.
C2Witness ==
    /\ pc = "done"
    /\ Len(frames) = 3
    /\ frames[3].err.type = "HelpOrVersionRequested"
    /\ MissesRequiredOpt(frames[1].c, cmds[1])
    /\ MissesRequiredOpt(frames[2].c, cmds[2])
    /\ err.type = "HelpOrVersionRequested"

\* ------------------------------------------------------------------------
\* C3
\* ------------------------------------------------------------------------

\* C3: when ParseThese returns a nil error, every required option of every
\* command on the parsed path has an entry in the Inputs of that command.
C3 ==
    (pc = "done" /\ err = NilErr) =>
        \A k \in 1..Len(cmds) : ~MissesRequiredOpt(frames[k].c, cmds[k])

\* ------------------------------------------------------------------------
\* C4
\* ------------------------------------------------------------------------

\* The tokens "-x", one for each character x of a stacked token.
Unstacked(tok) == [k \in 1..(Len(tok) - 1) |-> Hyphen(tok[k + 1])]

\* The option of c with short name ch (ch is the short name of one).
ShortOpt(c, ch) == c.Opts[lookupOptionByShortName(c, ch)]

DeclaresShort(c, ch) == ch # NUL /\ \E k \in 1..Len(c.Opts) : c.Opts[k].NameShort = ch
DeclaresBoolShort(c, ch) == DeclaresShort(c, ch) /\ ShortOpt(c, ch).IsBoolOpt
NoSuchShort(c, ch) == \A k \in 1..Len(c.Opts) : c.Opts[k].NameShort # ch

\* tok is "-" and two or more characters, each the short name of a boolean
\* option of c or of no option of c.
IsBoolStack(c, tok) ==
    /\ Len(tok) >= 3 /\ tok[1] = "-"
    /\ \A k \in 2..Len(tok) : DeclaresBoolShort(c, tok[k]) \/ NoSuchShort(c, tok[k])

\* No character of the stack is '-' or '='.
IsPlainStack(tok) == \A k \in 2..Len(tok) : tok[k] \notin {"-", "="}

\* Every character of the stack is the short name of a boolean option whose
\* entry is recorded: the empty value coerces and no help or version request
\* is made.
AllRecorded(c, tok) ==
    \A k \in 2..Len(tok) :
        /\ DeclaresBoolShort(c, tok[k])
        /\ coerce(ShortOpt(c, tok[k]), <<>>).ok
        /\ helpRequest(c, ShortOpt(c, tok[k]), ZeroInput) = NilErr

\* The defaults and the environment values of the root were all recorded.
SeedsRecorded ==
    err.type \notin {"DefaultOptionValueError", "DefaultArgValueError", "EnvVarError"}

\* The parse of the stack at the head of args is the parse of its characters
\* as separate tokens.
SameAsUnstacked ==
    Parsed(cmds, err) = parse(schema, env, MkCommand(<<>>), Unstacked(args[1]) \o Tail(args))

ValueForms(ch) ==
    LET tok == args[1]
        named == Len(tok) >= 2 /\ tok[1] = "-" /\ tok[2] = ch
    IN  (IF named /\ Len(tok) >= 3 THEN {[v |-> From(tok, 2), n |-> 1]} ELSE {})
        \cup (IF named /\ Len(tok) >= 4 /\ tok[3] = "="
              THEN {[v |-> From(tok, 3), n |-> 1]} ELSE {})
        \cup (IF named /\ Len(tok) = 2 /\ Len(args) >= 2 /\ args[2] # <<>>
              THEN {[v |-> args[2], n |-> 2]} ELSE {})

\* Exactly one entry for a is recorded first among the option entries, with
\* RawValue v; the tokens after the form are parsed as after "-a" then v;
\* and when nothing follows, that entry is all the command line gave.
YieldsOneEntry(a, ch, f) ==
    /\ Len(OptEntries(cmds[1].Inputs)) >= 1
    /\ OptEntries(cmds[1].Inputs)[1] = MkInput(a.ID, FromOpt(<<ch>>), f.v, coerce(a, f.v).val)
    /\ Parsed(cmds, err) =
            parse(schema, env, MkCommand(<<>>), <<Hyphen(ch), f.v>> \o From(args, f.n))
    /\ Len(args) = f.n =>
            /\ Len(OptEntries(cmds[1].Inputs)) = 1
            /\ ArgEntries(cmds[1].Inputs) = <<>>
            /\ cmds[1].Surplus = <<>>
            /\ Len(cmds) = 1

\* C5 as stated, for the non-boolean short options that keep the raw string
\* and request neither help nor version: every non-empty v.
C5AsStated ==
    (pc = "done" /\ Len(args) >= 1) =>
        \A k \in 1..Len(schema.Opts) :
            LET a == schema.Opts[k]
            IN  (/\ ~a.IsBoolOpt /\ a.NameShort # NUL
                 /\ a.ValueParser = "nil" /\ a.HelpGen = "nil" /\ a.Versioner = "nil") =>
                    \A f \in ValueForms(a.NameShort) : YieldsOneEntry(a, a.NameShort, f)

\* C5: for a non-boolean option a with a short name other than '-' and '=' and
\* without help generator or versioner, and every non-empty v that does not
\* begin with '=' and that the coercion of a accepts, "-a" + v, "-a" then v and
\* "-a=" + v each yield one entry for a with RawValue v and consume nothing
\* else, once the defaults and environment values are recorded.
C5 ==
    (pc = "done" /\ Len(args) >= 1 /\ SeedsRecorded) =>
        \A k \in 1..Len(schema.Opts) :
            LET a == schema.Opts[k]
            IN  (/\ ~a.IsBoolOpt
                 /\ a.NameShort \notin {NUL, "-", "="}
                 /\ a.HelpGen = "nil" /\ a.Versioner = "nil") =>
                    \A f \in ValueForms(a.NameShort) :
                        (f.v[1] # "=" /\ coerce(a, f.v).ok) =>
                            YieldsOneEntry(a, a.NameShort, f)

\* "-a1" was parsed as option aa with the value "1", and nothing else.
C5Witness ==
    /\ pc = "done" /\ err = NilErr
    /\ args = << <<"-", "a", "1">> >>
    /\ OptEntries(cmds[1].Inputs) =
            << MkInput(<<"a", "a">>, FromOpt(<<"a">>), <<"1">>, StrVal(<<"1">>)) >>

\* ------------------------------------------------------------------------
\* Vocabulary of the properties of one step of parse
\* ------------------------------------------------------------------------

Min(a, b) == IF a < b THEN a ELSE b
RawValues(seq) == [k \in 1..Len(seq) |-> seq[k].RawValue]
StartsWithHyphen(tok) == Len(tok) > 0 /\ tok[1] = "-"

\* The running parse is in its option loop with a token under the cursor.
Scanning == Running("scan") /\ cur.i < Len(cur.args)
Token == At(cur.args, cur.i)

\* The running parse and its Command after the step.
After == frames'[sp]
AfterCmd == cmds'[sp]

\* The step ends the option loop with the cursor at i and records nothing.
ScanEndsAt(i) ==
    /\ After.phase = "required" /\ After.i = i
    /\ cmds' = cmds /\ sp' = sp

\* The step returns e from the running parse.
ReturnsErr(e) == After.phase = "ret" /\ After.err = e /\ sp' = sp

\* The check of the required options records nothing, and unless it returns
\* a MissingOptionsError it hands on exactly the tokens from the cursor on.
RequiredHandsOn ==
    Running("required") =>
        /\ cmds' = cmds
        /\ \/ After.phase = "dispatch" /\ After.rest = From(cur.args, cur.i)
           \/ After.phase = "ret" /\ After.err.type = "MissingOptionsError"

\* Once the option loop of a parse has ended, its Command gets no further
\* option entry.
OptionsFrozen ==
    \A k \in 1..Len(frames) :
        frames[k].phase \in {"required", "dispatch", "wait", "ret"} =>
            OptEntries(cmds'[k].Inputs) = OptEntries(cmds[k].Inputs)

\* The positional entries slots 1..n of c get from the tokens rest.
SlotEntries(c, rest, n) ==
    [k \in 1..n |-> MkInput(c.Args[k].ID, FromArg(k), rest[k], coerce(c.Args[k], rest[k]).val)]

\* A command without subcommands: the tokens handed on fill the declared
\* slots in order, the k-th with Arg = k, and those beyond the slots are the
\* Surplus, verbatim and without error; this when the values coerce and no
\* required argument is left without a token.
PositionalVerbatim ==
    (Running("dispatch") /\ Len(cur.c.Subcmds) = 0) =>
        LET n == Min(Len(cur.rest), Len(cur.c.Args))
        IN  (/\ \A k \in 1..n : coerce(cur.c.Args[k], cur.rest[k]).ok
             /\ n = Len(cur.c.Args) \/ ~cur.c.Args[n + 1].IsRequired) =>
                /\ AfterCmd.Inputs = curCmd.Inputs \o SlotEntries(cur.c, cur.rest, n)
                /\ AfterCmd.Surplus = SubSeq(cur.rest, n + 1, Len(cur.rest))
                /\ ReturnsErr(NilErr)

\* A command with subcommands: the first token handed on is matched as the
\* name of a subcommand, which gets the tokens after it.
SubcmdVerbatim ==
    (Running("dispatch") /\ Len(cur.c.Subcmds) > 0 /\ Len(cur.rest) > 0) =>
        IF \E k \in 1..Len(cur.c.Subcmds) : cur.c.Subcmds[k].Name = cur.rest[1]
        THEN /\ sp' = sp + 1
             /\ frames'[sp'].c.Name = cur.rest[1]
             /\ frames'[sp'].args = Tail(cur.rest)
             /\ cmds'[sp'] = MkCommand(cur.rest[1])
             /\ AfterCmd = curCmd
        ELSE /\ ReturnsErr(MkErr("UnknownSubcmdError", cur.c.Path, cur.rest[1], <<>>, <<>>))
             /\ cmds' = cmds

\* ------------------------------------------------------------------------
\* C6
\* ------------------------------------------------------------------------

C6Step == (Scanning /\ Token = <<"-", "-">>) => ScanEndsAt(cur.i + 1)

\* "--" at the head of the arguments of ParseThese.
C6Final ==
    (pc = "done" /\ Len(args) >= 1 /\ args[1] = <<"-", "-">> /\ SeedsRecorded) =>
        /\ OptEntries(cmds[1].Inputs) = <<>>
        /\ (Len(schema.Subcmds) = 0 /\ err = NilErr) =>
                RawValues(ArgEntries(cmds[1].Inputs)) \o cmds[1].Surplus = Tail(args)
        /\ (Len(schema.Subcmds) > 0 /\ Len(args) >= 2) =>
                IF \E k \in 1..Len(schema.Subcmds) : schema.Subcmds[k].Name = args[2]
                THEN /\ Len(cmds) >= 2 /\ cmds[2].Name = args[2]
                     /\ frames[2].args = Tail(Tail(args))
                ELSE err = MkErr("UnknownSubcmdError", schema.Path, args[2], <<>>, <<>>)

\* C6: a token "--" under the cursor of the option loop is consumed, yields no
\* entry and ends the loop; the tokens after it are handed verbatim to the
\* positional arguments or the subcommand and none becomes an option entry.
C6 ==
    /\ []C6Final
    /\ [][C6Step /\ RequiredHandsOn /\ OptionsFrozen /\ PositionalVerbatim /\ SubcmdVerbatim]_vars

\* ["--", "--aa"]: no option entry, and a positional entry with RawValue "--aa".
C6Witness ==
    /\ pc = "done" /\ err = NilErr
    /\ args = << <<"-", "-">>, <<"-", "-", "a", "a">> >>
    /\ OptEntries(cmds[1].Inputs) = <<>>
    /\ RawValues(ArgEntries(cmds[1].Inputs)) = << <<"-", "-", "a", "a">> >>

\* ------------------------------------------------------------------------
\* C7
\* ------------------------------------------------------------------------

C7Step ==
    (Scanning /\ ~StartsWithHyphen(Token) /\ Len(cur.c.Subcmds) = 0) => ScanEndsAt(cur.i)

\* A first argument of ParseThese that does not start with '-'.
C7Final ==
    (/\ pc = "done" /\ err = NilErr /\ Len(schema.Subcmds) = 0
     /\ Len(args) >= 1 /\ ~StartsWithHyphen(args[1])) =>
        /\ OptEntries(cmds[1].Inputs) = <<>>
        /\ Len(ArgEntries(cmds[1].Inputs)) = Min(Len(args), Len(schema.Args))
        /\ \A k \in 1..Len(ArgEntries(cmds[1].Inputs)) :
                /\ ArgEntries(cmds[1].Inputs)[k].From.Arg = k
                /\ ArgEntries(cmds[1].Inputs)[k].ID = schema.Args[k].ID
        /\ RawValues(ArgEntries(cmds[1].Inputs)) \o cmds[1].Surplus = args

\* C7: in a command without subcommands the option loop ends at a token that
\* does not start with '-'; the tokens from there on fill the declared
\* positional slots in order (the k-th with Arg = k) and those beyond the
\* slots are the Surplus, in order and verbatim, without error.
C7 ==
    /\ []C7Final
    /\ [][C7Step /\ RequiredHandsOn /\ PositionalVerbatim]_vars

\* ["1", "1", "-b"]: two positional entries and the surplus "-b".
C7Witness ==
    /\ pc = "done" /\ err = NilErr
    /\ Len(schema.Subcmds) = 0 /\ Len(schema.Args) = 2
    /\ Len(ArgEntries(cmds[1].Inputs)) = 2
    /\ OptEntries(cmds[1].Inputs) = <<>>
    /\ cmds[1].Surplus = << <<"-", "b">> >>

\* ------------------------------------------------------------------------
\* C8
\* ------------------------------------------------------------------------

C8Step == (Scanning /\ Token = <<"-">>) => ScanEndsAt(cur.i)

\* "-" at the head of the arguments of ParseThese.
C8Final ==
    (pc = "done" /\ Len(args) >= 1 /\ args[1] = <<"-">> /\ SeedsRecorded) =>
        /\ OptEntries(cmds[1].Inputs) = <<>>
        /\ err.type # "UnknownOptionError" \/ Len(cmds) > 1
        /\ (Len(schema.Subcmds) = 0 /\ err = NilErr) =>
                /\ RawValues(ArgEntries(cmds[1].Inputs)) \o cmds[1].Surplus = args
                /\ Len(schema.Args) > 0 =>
                        /\ ArgEntries(cmds[1].Inputs)[1].RawValue = <<"-">>
                        /\ ArgEntries(cmds[1].Inputs)[1].From.Arg = 1
        /\ Len(schema.Subcmds) > 0 =>
                IF \E k \in 1..Len(schema.Subcmds) : schema.Subcmds[k].Name = <<"-">>
                THEN /\ Len(cmds) >= 2 /\ cmds[2].Name = <<"-">>
                     /\ frames[2].args = Tail(args)
                ELSE err = MkErr("UnknownSubcmdError", schema.Path, <<"-">>, <<>>, <<>>)

\* C8: a token "-" under the cursor of the option loop ends the loop without
\* being consumed or reported; it becomes the first positional value or is
\* matched as the subcommand name, and the tokens after it yield no option
\* entry of the command.
C8 ==
    /\ []C8Final
    /\ [][C8Step /\ RequiredHandsOn /\ OptionsFrozen /\ PositionalVerbatim /\ SubcmdVerbatim]_vars

\* ["-", "-z"]: "-" is the first positional value and "-z" the second.
C8Witness ==
    /\ pc = "done" /\ err = NilErr
    /\ args = << <<"-">>, <<"-", "z">> >>
    /\ OptEntries(cmds[1].Inputs) = <<>>
    /\ RawValues(ArgEntries(cmds[1].Inputs)) = args

\* ------------------------------------------------------------------------
\* Vocabulary of the properties of option tokens
\* ------------------------------------------------------------------------

\* tok is a stack of short options or a short option with its value: one
\* hyphen, then two or more characters of which the second is not '='.
IsClusterToken(tok) ==
    Len(tok) >= 3 /\ tok[1] = "-" /\ tok[2] # "-" /\ tok[3] # "="

\* tok is an option token that is neither "-", "--" nor a cluster.
IsNamedToken(tok) ==
    /\ Len(tok) >= 2 /\ tok[1] = "-"
    /\ tok # <<"-", "-">>
    /\ ~IsClusterToken(tok)

\* tok as typed without its one or two leading hyphens.
Unhyphened(tok) == IF tok[2] = "-" THEN From(tok, 2) ELSE From(tok, 1)

\* The option name of a named token: what stands before the first '='.
TypedName(tok) ==
    IF eqIndex(Unhyphened(tok)) = -1 THEN Unhyphened(tok)
    ELSE Upto(Unhyphened(tok), eqIndex(Unhyphened(tok)))

\* name matches an option of c: a name of one character by the short names,
\* any other by the long names.
Matches(c, name) ==
    IF Len(name) = 1 THEN \E k \in 1..Len(c.Opts) : c.Opts[k].NameShort = name[1]
    ELSE \E k \in 1..Len(c.Opts) : c.Opts[k].NameLong = name

\* The option of c that name matches.
Matched(c, name) ==
    IF Len(name) = 1 THEN ShortOpt(c, name[1])
    ELSE c.Opts[lookupOptionByLongName(c, name)]

\* The characters 2..(u - 1) of cluster tok are short names of boolean
\* options of c whose entries are recorded.
RecordedUpTo(c, tok, u) ==
    \A k \in 2..(u - 1) :
        /\ DeclaresBoolShort(c, tok[k])
        /\ coerce(ShortOpt(c, tok[k]), <<>>).ok
        /\ helpRequest(c, ShortOpt(c, tok[k]), ZeroInput) = NilErr

\* The entries of the characters 2..(u - 1) of cluster tok.
StackEntries(c, tok, u) ==
    [k \in 1..(u - 2) |->
        MkInput(ShortOpt(c, tok[k + 1]).ID, FromOpt(<<tok[k + 1]>>), <<>>,
                coerce(ShortOpt(c, tok[k + 1]), <<>>).val)]

\* ------------------------------------------------------------------------
\* C9
\* ------------------------------------------------------------------------

C9Named ==
    (Scanning /\ IsNamedToken(Token) /\ ~Matches(cur.c, TypedName(Token))) =>
        /\ ReturnsErr(MkErr("UnknownOptionError", cur.c.Path, Token, <<>>, <<>>))
        /\ cmds' = cmds

C9Cluster ==
    (Scanning /\ IsClusterToken(Token)) =>
        \A u \in 2..Len(Token) :
            (NoSuchShort(cur.c, Token[u]) /\ RecordedUpTo(cur.c, Token, u)) =>
                /\ ReturnsErr(MkErr("UnknownOptionError", cur.c.Path,
                                    <<"-", Token[u]>>, <<>>, <<>>))
                /\ AfterCmd.Inputs = curCmd.Inputs \o StackEntries(cur.c, Token, u)

AtLastToken == Scanning /\ cur.i = Len(cur.args) - 1

C10Named ==
    (/\ AtLastToken /\ IsNamedToken(Token)
     /\ eqIndex(Unhyphened(Token)) = -1
     /\ Matches(cur.c, TypedName(Token))) =>
        IF Matched(cur.c, TypedName(Token)).IsBoolOpt
        THEN After.err.type # "MissingOptionValueError"
        ELSE ReturnsErr(MkErr("MissingOptionValueError", cur.c.Path,
                              Unhyphened(Token), <<>>, <<>>))

C10Cluster ==
    (/\ AtLastToken /\ IsClusterToken(Token)
     /\ DeclaresShort(cur.c, Token[Len(Token)])
     /\ RecordedUpTo(cur.c, Token, Len(Token))) =>
        IF ShortOpt(cur.c, Token[Len(Token)]).IsBoolOpt
        THEN After.err.type # "MissingOptionValueError"
        ELSE ReturnsErr(MkErr("MissingOptionValueError", cur.c.Path,
                              <<Token[Len(Token)]>>, <<>>, <<>>))

\* The MissingOptionValueError a parse returned of its own names a
\* non-boolean option of its command.
C10State ==
    (Len(frames) > 0 /\ frames[Len(frames)].err.type = "MissingOptionValueError") =>
        /\ Matches(frames[Len(frames)].c, frames[Len(frames)].err.Name)
        /\ ~Matched(frames[Len(frames)].c, frames[Len(frames)].err.Name).IsBoolOpt

\* C10: a non-boolean option without "=value" that is the last token, or the
\* last character of a cluster that is the last token, yields
\* MissingOptionValueError with the option name as typed, without hyphens;
\* a boolean option in that place never yields it.
C10 == []C10State /\ [][C10Named /\ C10Cluster]_vars

\* ["-ca"]: c is recorded and the error names "a".
C10Witness ==
    /\ pc = "done"
    /\ args = << <<"-", "c", "a">> >>
    /\ err = MkErr("MissingOptionValueError", schema.Path, <<"a">>, <<>>, <<>>)
    /\ Len(OptEntries(cmds[1].Inputs)) = 1

\* ------------------------------------------------------------------------
\* C11
\* ------------------------------------------------------------------------

HasEntry(inputs, id) == \E k \in 1..Len(inputs) : inputs[k].ID = id

\* The display names, in declaration order, of the required arguments of c
\* after slot n that have no entry in inputs.
MissingNames(c, inputs, n) ==
    LET later == SubSeq(c.Args, n + 1, Len(c.Args))
        miss == SelectSeq(later, LAMBDA a : a.IsRequired /\ ~HasEntry(inputs, a.ID))
    IN  [k \in 1..Len(miss) |-> miss[k].ValueName]

\* The tokens handed on run out before the declared slots do.
C11Step ==
    (/\ Running("dispatch") /\ Len(cur.c.Subcmds) = 0
     /\ Len(cur.rest) < Len(cur.c.Args)
     /\ \A k \in 1..Len(cur.rest) : coerce(cur.c.Args[k], cur.rest[k]).ok) =>
        LET n == Len(cur.rest)
            filled == curCmd.Inputs \o SlotEntries(cur.c, cur.rest, n)
            names == MissingNames(cur.c, filled, n)
        IN  /\ AfterCmd.Inputs = filled
            /\ AfterCmd.Surplus = <<>>
            /\ IF cur.c.Args[n + 1].IsRequired /\ names # <<>>
               THEN ReturnsErr(MkErr("MissingArgsError", cur.c.Path, <<>>, names, <<>>))
               ELSE ReturnsErr(NilErr)

\* A MissingArgsError names only required arguments without an entry, and a
\* parse that returned no error left no required argument without one.
C11State ==
    \A k \in 1..Len(frames) :
        /\ (frames[k].phase = "ret" /\ frames[k].err.type = "MissingArgsError") =>
                /\ frames[k].err.Names # <<>>
                /\ frames[k].err.Names = MissingNames(frames[k].c, cmds[k].Inputs, 0)
        /\ (frames[k].phase = "ret" /\ frames[k].err = NilErr
                /\ Len(frames[k].c.Subcmds) = 0) =>
                MissingNames(frames[k].c, cmds[k].Inputs, 0) = <<>>

\* C11: in a command without subcommands, when the positional tokens run out
\* at a required argument parse returns a MissingArgsError whose Names are the
\* display names, in declaration order, of exactly the required arguments from
\* that slot on that have no entry (none from the environment, none from a
\* default), and returns no error when there is none; when they run out at an
\* optional argument parse returns no error and records no entry for it.
C11 == []C11State /\ [][C11Step]_vars

\* No token is left for the three required arguments; x has its value from
\* the environment and z from its default, so that y alone is reported.
C11Witness ==
    /\ pc = "done" /\ schema.Name = <<"g">>
    /\ err = MkErr("MissingArgsError", <<"g">>, <<>>, << <<"y">> >>, <<>>)
    /\ Len(EnvEntries(cmds[1].Inputs)) = 1
    /\ ArgEntries(cmds[1].Inputs) = <<>>

\* ------------------------------------------------------------------------
\* C12
\* ------------------------------------------------------------------------

\* The subcommand schemas of c that are named name.
SubcmdsNamed(c, name) ==
    {c.Subcmds[k] : k \in {j \in 1..Len(c.Subcmds) : c.Subcmds[j].Name = name}}

\* The option loop of a command with subcommands is over.
C12Step ==
    (Running("dispatch") /\ Len(cur.c.Subcmds) > 0) =>
        IF cur.rest = <<>>
        THEN /\ cmds' = cmds /\ Len(cmds) = sp
             /\ ReturnsErr(IF cur.c.IsSubcmdOptional THEN NilErr
                           ELSE MkErr("ErrNoSubcmd", <<>>, <<>>, <<>>, <<>>))
        ELSE IF SubcmdsNamed(cur.c, cur.rest[1]) = {}
        THEN /\ cmds' = cmds /\ Len(cmds) = sp
             /\ ReturnsErr(MkErr("UnknownSubcmdError", cur.c.Path, cur.rest[1], <<>>, <<>>))
        ELSE /\ sp' = sp + 1
             /\ cmds' = Append(cmds, [Name |-> cur.rest[1], Inputs |-> <<>>, Surplus |-> <<>>])
             /\ frames'[sp'].c \in SubcmdsNamed(cur.c, cur.rest[1])
             /\ frames'[sp'].args = Tail(cur.rest)
             /\ frames'[sp'].phase = "defaults"

\* The Commands of a result are linked as the calls of parse were made: each
\* Subcmd has the name of the token that chose it and was parsed against a
\* subcommand schema of that name with the tokens after the name; the last
\* Command has no Subcmd.
C12State ==
    /\ Len(cmds) = Len(frames)
    /\ \A k \in 1..(Len(frames) - 1) :
            /\ frames[k].rest # <<>>
            /\ cmds[k + 1].Name = frames[k].rest[1]
            /\ frames[k + 1].c \in SubcmdsNamed(frames[k].c, frames[k].rest[1])
            /\ frames[k + 1].args = Tail(frames[k].rest)
            /\ frames[k].rest = From(frames[k].args, frames[k].i)

RECURSIVE Nodes(_, _)
Nodes(c, above) ==
    {[c |-> c, path |-> Append(above, c.Name)]}
        \cup UNION {Nodes(c.Subcmds[k], Append(above, c.Name)) : k \in 1..Len(c.Subcmds)}

\* c has a duplicate of the kind what, and dup is it.
HasDup(c, what, dup) ==
    \/ /\ what \in {"duplicate option ids", "duplicate argument ids"}
       /\ \E p \in Pairs(Len(Declared(c))) :
                Declared(c)[p[1]].ID = dup /\ Declared(c)[p[2]].ID = dup
    \/ /\ what = "duplicate option short name"
       /\ \E p \in Pairs(Len(c.Opts)) :
                /\ c.Opts[p[1]].NameShort # NUL
                /\ <<c.Opts[p[1]].NameShort>> = dup /\ <<c.Opts[p[2]].NameShort>> = dup
    \/ /\ what = "duplicate option long name"
       /\ \E p \in Pairs(Len(c.Opts)) :
                /\ c.Opts[p[1]].NameLong # <<>>
                /\ c.Opts[p[1]].NameLong = dup /\ c.Opts[p[2]].NameLong = dup
    \/ /\ what = "duplicate subcommand name"
       /\ \E p \in Pairs(Len(c.Subcmds)) :
                c.Subcmds[p[1]].Name = dup /\ c.Subcmds[p[2]].Name = dup

DupKinds ==
    {"duplicate option ids", "duplicate argument ids", "duplicate option short name",
     "duplicate option long name", "duplicate subcommand name"}

\* Some ID, option name or subcommand name is declared twice by c.
HasSomeDup(c) ==
    \E what \in DupKinds :
        \/ \E k \in 1..Len(Declared(c)) : HasDup(c, what, Declared(c)[k].ID)
        \/ \E k \in 1..Len(c.Opts) :
                HasDup(c, what, <<c.Opts[k].NameShort>>) \/ HasDup(c, what, c.Opts[k].NameLong)
        \/ \E k \in 1..Len(c.Subcmds) : HasDup(c, what, c.Subcmds[k].Name)

\* C13: the preparation of the schema by ParseThese panics if some command of
\* the tree declares one ID twice among its options and positional arguments
\* taken together, or one non-empty short or long option name twice, or one
\* subcommand name twice; and the message of the panic names the path, from
\* the root down, of a command that does, and what it declares twice.
C13 ==
    /\ pc \in {"running", "done"} =>
            \A n \in Nodes(schema, <<>>) : ~HasSomeDup(n.c)
    /\ pc = "panic" =>
            \E n \in Nodes(schema, <<>>) :
                /\ HasDup(n.c, schema.panic, schema.panicDup)
                /\ schema.panicPath = n.path

\* The two parse calls of a program.
ParseOps == {"ParseThese", "ParseTheseOrExit"}

\* The options, positional arguments and subcommands of every command of the
\* tree below c.
RECURSIVE TreeOf(_)
TreeOf(c) ==
    [Name |-> c.Name, Opts |-> c.Opts, Args |-> c.Args,
     Subcmds |-> [k \in 1..Len(c.Subcmds) |-> TreeOf(c.Subcmds[k])]]

\* The tree of variable k of the program on heap h.
TreeOfVar(h, k) == TreeOf(View(h, h[1].cells[k]))

\* The help options that the preparation gave c.
SynthesizedHelps(c) == {i \in 1..Len(c.Opts) : c.Opts[i] = DefaultHelpInput}

\* The panics of the preparation about options declared twice.
DupOptionPanics ==
    {"duplicate option ids", "duplicate option short name", "duplicate option long name"}

\* A parse call on a variable parsed before raises no panic about options
\* declared twice.
C14NoPanic ==
    (call.op \in ParseOps /\ parsed[call.src] >= 2) => call.panic \notin DupOptionPanics

\* No command of the tree of a parsed variable has two synthesized help options.
C14OneHelp ==
    \A k \in 1..nvars :
        parsed[k] >= 1 =>
            \A n \in Nodes(View(heap, var(k)), <<>>) : Cardinality(SynthesizedHelps(n.c)) <= 1

\* A parse call on a variable parsed before leaves its tree as it was.
C14Step ==
    (bpc = "run" /\ call'.op \in ParseOps /\ parsed[call'.src] >= 1) =>
        TreeOfVar(heap', call'.src) = TreeOfVar(heap, call'.src)

\* C14: however often one schema is parsed, by ParseThese or by
\* ParseTheseOrExit, no later call panics about options declared twice, no
\* command of its tree has more than one synthesized help option, and every
\* call after the first leaves the options, positional arguments and
\* subcommands of every command of the tree unchanged.
C14 == [](C14NoPanic /\ C14OneHelp) /\ [][C14Step]_vars

\* c is well-formed: not both positional arguments and subcommands, every
\* option with a short or long name and every positional argument with
\* neither, and no required positional argument after an optional one.
WellFormed(c) ==
    /\ ~(Len(c.Args) > 0 /\ Len(c.Subcmds) > 0)
    /\ \A i \in 1..Len(c.Opts) : c.Opts[i].NameShort # NUL \/ c.Opts[i].NameLong # <<>>
    /\ \A i \in 1..Len(c.Args) : c.Args[i].NameShort = NUL /\ c.Args[i].NameLong = <<>>
    /\ \A i \in 1..Len(c.Args), j \in 1..Len(c.Args) :
            (i < j /\ ~c.Args[i].IsRequired) => ~c.Args[j].IsRequired

\* C15: every CommandInfo that a program holds after builder calls that did
\* not panic is well-formed, and so is every command below it: a call that
\* would break the rules panics when it is made.
C15 ==
    \A k \in 1..nvars :
        \A n \in Nodes(View(heap, var(k)), <<>>) : WellFormed(n.c)

\* The trees of the commands of the tree of variable k.
TreesBelow(h, k) == {TreeOf(n.c) : n \in Nodes(View(h, h[1].cells[k]), <<>>)}

\* The variables that the call made by this step may change: the one its
\* result is assigned to, and for a parse call the receiver and the
\* variables holding a command of the receiver's tree.
MayChange(j) ==
    \/ j = call'.dst
    \/ call'.op \in ParseOps /\ TreeOfVar(heap, j) \in TreesBelow(heap, call'.src)

\* A call leaves the options, positional arguments and subcommands of every
\* other variable as they were.
C16Step ==
    (bpc = "run" /\ bpc' # "panic") =>
        \A j \in 1..nvars : MayChange(j) \/ TreeOfVar(heap', j) = TreeOfVar(heap, j)

\* C16: schemas derived from one CommandInfo by separate builder chains, as
\* c1 := base.Opt(x) and c2 := base.Opt(y), do not affect each other or the
\* base: a builder call or a parse call on one leaves the Opts, Args and
\* Subcmds of the others as their own chains made them.
C16 == [][C16Step]_vars

\* C17: once ParseThese has prepared the schema, the Path of every command of
\* the tree, however deep, is the names of the commands from the root down
\* to it.
C17 ==
    pc \in {"running", "done"} =>
        \A n \in Nodes(schema, <<>>) : n.c.Path = n.path

\* The value of the environment variable bound to in.
EnvValue(in) == LookupEnv(env, in.EnvVar).val

\* The entries of the set environment variables bound to the inputs of c.
EnvInputs(c) ==
    LET d == DeclaredWithEnv(c, env)
    IN  [k \in 1..Len(d) |->
            MkInput(d[k].ID, FromEnv(d[k].EnvVar), EnvValue(d[k]), coerce(d[k], EnvValue(d[k])).val)]

\* Some set environment variable bound to an input of c does not coerce.
EnvFails(c) ==
    \E k \in 1..Len(DeclaredWithEnv(c, env)) :
        ~coerce(DeclaredWithEnv(c, env)[k], EnvValue(DeclaredWithEnv(c, env)[k])).ok

\* "grab any envs" appends the entries of the set variables and no other, or
\* returns an error when one of them does not coerce.
C18Step ==
    Running("envs") =>
        IF EnvFails(cur.c)
        THEN After.phase = "ret" /\ After.err.type = "EnvVarError" /\ sp' = sp
        ELSE /\ After.phase = "scan" /\ sp' = sp
             /\ AfterCmd.Inputs = curCmd.Inputs \o EnvInputs(cur.c)

\* A parse that came past its environment holds exactly the entries of the
\* set variables, and the call returns an error when a variable of a command
\* it came to does not coerce.
C18State ==
    /\ \A k \in 1..Len(frames) :
            (/\ frames[k].phase \notin {"defaults", "envs"}
             /\ ~(frames[k].phase = "ret" /\ frames[k].err.type \in
                    {"DefaultOptionValueError", "DefaultArgValueError", "EnvVarError"})) =>
                EnvEntries(cmds[k].Inputs) = EnvInputs(frames[k].c)
    /\ (pc = "done" /\ \E k \in 1..Len(frames) : EnvFails(frames[k].c)) => err # NilErr

\* C18: for every input bound to an environment variable, an unset variable
\* gives no entry and no error; a set one, the empty string included, is
\* coerced as any value of the input is and appended with From.Env the name
\* of the variable; and a value that does not coerce makes parse return an
\* error instead of passing over the variable.
C18 == []C18State /\ [][C18Step]_vars

\* A parse returned with an entry for a variable set to the empty string and
\* none for the unset ones.
C18Witness ==
    /\ pc = "done" /\ err = NilErr
    /\ schema.Name = <<"v">>
    /\ LookupEnv(env, <<"S">>) = [set |-> TRUE, val |-> <<>>]
    /\ ~LookupEnv(env, <<"N">>).set
    /\ EnvEntries(cmds[1].Inputs) = <<MkInput(<<"s">>, FromEnv(<<"S">>), <<>>, StrVal(<<>>))>>

\* The values recorded in c under id, in recorded order.
ValuesOf(c, id) ==
    [k \in 1..Len(EntriesOf(c.Inputs, id)) |-> EntriesOf(c.Inputs, id)[k].Value]

\* The IDs looked up: those recorded in c, and one that never is.
LookedUp(c) == {c.Inputs[k].ID : k \in 1..Len(c.Inputs)} \cup {<<"n", "o">>}

\* A fallback of type T that no parse of the model records.
Fallback(T) ==
    IF T = "bool" THEN BoolVal(TRUE)
    ELSE IF T = "int" THEN IntVal(0 - 1)
    ELSE StrVal(<<"f", "b">>)

\* Every value recorded in c under id has type T.
AllOfType(T, c, id) == \A k \in 1..Len(ValuesOf(c, id)) : Asserts(ValuesOf(c, id)[k], T)

\* The six lookups of id in c, with type parameter T, give what the values
\* recorded under id say.
LookupsAgree(T, c, id) ==
    LET vals == ValuesOf(c, id)
        none == vals = <<>>
        last == vals[Len(vals)]
    IN  /\ LookupOf(T, c, id) = IF none THEN Looked("", Zero(T), FALSE, FALSE)
                                ELSE Looked("", last, TRUE, FALSE)
        /\ Get(T, c, id).panic # "" <=> none
        /\ ~none => Get(T, c, id) = LookupOf(T, c, id)
        /\ GetOr(T, c, id, Fallback(T)) = IF none THEN Looked("", Fallback(T), FALSE, TRUE)
                                          ELSE Looked("", last, TRUE, FALSE)
        /\ GetOrFunc(T, c, id, Fallback(T)) = GetOr(T, c, id, Fallback(T))
        /\ GetAll(T, c, id) = [panic |-> "", vals |-> vals]
        /\ \A n \in 1..(Len(vals) + 1) :
                GetAllSeq(T, c, id, n) = [panic |-> "", vals |-> SubSeq(vals, 1, Min(n, Len(vals)))]
        /\ ~none => GetAll(T, c, id).vals[Len(vals)] = LookupOf(T, c, id).val

\* C19 as stated, for every type parameter: Lookup gives the value of the
\* last entry with the ID and true, or the zero value and false when there
\* is none; Get gives the same value and panics exactly when there is none;
\* GetOr and GetOrFunc give the fallback exactly when there is none; GetAll
\* and GetAllSeq give the values of all entries with the ID in recorded
\* order, the last of them the value of Lookup.
C19AsStated ==
    \A k \in 1..Len(cmds) : \A id \in LookedUp(cmds[k]) : \A T \in Types :
        LookupsAgree(T, cmds[k], id)

\* C19: the same for every type parameter T that all values recorded under
\* the ID have (with another T the lookups panic in the type assertion).
C19 ==
    \A k \in 1..Len(cmds) : \A id \in LookedUp(cmds[k]) : \A T \in Types :
        AllOfType(T, cmds[k], id) => LookupsAgree(T, cmds[k], id)

\* A returned parse holds two entries with one ID and different values, so
\* that the last differs from the first.
C19Witness ==
    /\ pc = "done" /\ err = NilErr
    /\ \E id \in LookedUp(cmds[1]) :
            /\ Len(ValuesOf(cmds[1], id)) >= 2
            /\ ValuesOf(cmds[1], id)[1] # Lookup(cmds[1], id).val
            /\ AllOfType("string", cmds[1], id)

\* The fields of the ParsedFrom f that are not zero.
NonZeroFields(f) ==
    {x \in {"Env", "Opt", "Arg", "Default"} :
        \/ x = "Env" /\ f.Env # <<>>
        \/ x = "Opt" /\ f.Opt # <<>>
        \/ x = "Arg" /\ f.Arg >= 1
        \/ x = "Default" /\ f.Default}

\* C20: every Input of every Command of a parse has exactly one non-zero
\* field in From: the name of an option, the number (from 1) of a positional
\* slot, the name of an environment variable, or Default.
C20 ==
    \A k \in 1..Len(cmds) : \A j \in 1..Len(cmds[k].Inputs) :
        /\ Cardinality(NonZeroFields(cmds[k].Inputs[j].From)) = 1
        /\ cmds[k].Inputs[j].From.Arg >= 0

\* post is pre with the default help option appended to the options of
\* every command that has no option with a help generator, and to no other.
RECURSIVE HelpPrepared(_, _)
HelpPrepared(pre, post) ==
    /\ post.Opts = IF \E k \in 1..Len(pre.Opts) : pre.Opts[k].HelpGen # "nil"
                   THEN pre.Opts
                   ELSE Append(pre.Opts, DefaultHelpInput)
    /\ Len(post.Subcmds) = Len(pre.Subcmds)
    /\ \A k \in 1..Len(pre.Subcmds) : HelpPrepared(pre.Subcmds[k], post.Subcmds[k])

\* The preparation appends the help options and does so without a panic
\* only.
C21Step == (pc = "idle" /\ pc' = "running") => HelpPrepared(schema, schema')

\* Every command of a prepared tree has an option with a help generator.
C21State ==
    /\ pc \in {"running", "done"} =>
            \A n \in Nodes(schema, <<>>) :
                \E k \in 1..Len(n.c.Opts) : n.c.Opts[k].HelpGen # "nil"
    /\ DefaultHelpInput.IsBoolOpt
    /\ DefaultHelpInput.NameShort = "h"
    /\ DefaultHelpInput.NameLong = <<"h", "e", "l", "p">>
    /\ DefaultHelpInput.HelpGen = "DefaultHelpGenerator"

\* C21: after the preparation every command of the tree, the root and every
\* subcommand at any depth, has an option with a help generator: the default
\* help option (boolean, short 'h', long 'help') is appended to a command
\* exactly when none of its options has HelpGen set, and never to a command
\* that has such an option.
C21 == []C21State /\ [][C21Step]_vars

\* A prepared tree whose root kept its own help option and got no other, and
\* whose subcommand got the default one.
C21Witness ==
    /\ pc = "running"
    /\ schema.Name = <<"m">>
    /\ \A k \in 1..Len(schema.Opts) : schema.Opts[k] # DefaultHelpInput
    /\ \E k \in 1..Len(schema.Opts) : schema.Opts[k].HelpGen = "UserHelpGenerator"
    /\ schema.Subcmds[1].Opts = <<DefaultHelpInput>>

\* The value of a boolean option given the raw string raw: true when no
\* value was provided, and ParseBool of it otherwise.
BoolOptValue(raw) ==
    IF raw = <<>> THEN [ok |-> TRUE, val |-> BoolVal(TRUE)] ELSE ParseBool(raw)

\* id is the ID of a boolean option of c, and of no other input of c.
IsBoolOptID(c, id) ==
    /\ \E k \in 1..Len(c.Opts) : c.Opts[k].ID = id /\ c.Opts[k].IsBoolOpt
    /\ Cardinality({k \in 1..Len(Declared(c)) : Declared(c)[k].ID = id}) = 1

\* Every entry of a boolean option holds the value of a boolean option.
C22State ==
    \A k \in 1..Len(frames) : \A j \in 1..Len(cmds[k].Inputs) :
        IsBoolOptID(frames[k].c, cmds[k].Inputs[j].ID) =>
            /\ BoolOptValue(cmds[k].Inputs[j].RawValue).ok
            /\ cmds[k].Inputs[j].Value = BoolOptValue(cmds[k].Inputs[j].RawValue).val

\* The token -c of a boolean option c, without help generator or versioner,
\* records the value true.
C22Step ==
    (/\ Scanning /\ Len(Token) = 2 /\ Token[2] \notin {"-", "="}
     /\ DeclaresBoolShort(cur.c, Token[2])
     /\ ShortOpt(cur.c, Token[2]).HelpGen = "nil"
     /\ ShortOpt(cur.c, Token[2]).Versioner = "nil") =>
        /\ After.phase = "scan" /\ sp' = sp
        /\ AfterCmd.Inputs = Append(curCmd.Inputs,
                MkInput(ShortOpt(cur.c, Token[2]).ID, FromOpt(<<Token[2]>>), <<>>, BoolVal(TRUE)))

\* C22: a value parser that the user set on an option made with NewBoolOpt
\* is ignored: without a value the option's value is true, and a value given
\* to it is parsed with ParseBool, whatever ValueParser the option carries.
C22 == []C22State /\ [][C22Step]_vars

\* What the caller of a subcommand returns by the rule of C23, holding held
\* when the subcommand returned sub.
MaskedBy(held, sub) ==
    IF held = NilErr THEN sub
    ELSE IF sub.type = "HelpOrVersionRequested" THEN sub
    ELSE held

\* The return from the recursion into a subcommand.
C23Step ==
    (Running("ret") /\ depth > 1) =>
        /\ sp' = sp - 1
        /\ cmds' = cmds
        /\ frames'[sp - 1].phase = "ret"
        /\ frames'[sp - 1].err = MaskedBy(frames[sp - 1].errMissingOpts, cur.err)
        /\ frames[sp - 1].errMissingOpts.type \in {"nil", "MissingOptionsError"}

\* What the call returns once a subcommand has returned to the root.
C23State ==
    (pc = "done" /\ Len(frames) >= 2) =>
        /\ frames[2].phase = "ret"
        /\ err = MaskedBy(frames[1].errMissingOpts, frames[2].err)

\* C23: on the return from the recursion into a subcommand, a command that
\* holds a MissingOptionsError returns it unless the subcommand returned
\* HelpOrVersionRequested, masking every other error of the subcommand and
\* its success; a command that holds none returns what the subcommand
\* returned, unchanged.
C23 == []C23State /\ [][C23Step]_vars

\* The error held by the root masked an error of its subcommand.
C23Witness ==
    /\ pc = "done" /\ Len(frames) >= 2
    /\ err.type = "MissingOptionsError"
    /\ frames[2].err.type = "UnknownOptionError"

\* How often prepareAndValidate was entered on the schema.
RECURSIVE EnteredUpTo(_)
EnteredUpTo(t) == IF t = 0 THEN 0 ELSE threads[t].entered + EnteredUpTo(t - 1)

\* C24: when several threads make the first call of ParseThese on one
\* CommandInfo at once, the preparation and the setting of isPrepped run at
\* most once: in no interleaving is prepareAndValidate entered twice, and
\* each command ends with exactly one synthesized help option.
C24 ==
    /\ EnteredUpTo(NThreads) <= 1
    /\ \A t \in Threads : threads[t].panic = ""
    /\ (\A t \in Threads : threads[t].at = "parse") =>
            \A n \in Nodes(View(heap, var(nvars)), <<>>) :
                Cardinality(SynthesizedHelps(n.c)) = 1

\* The value of the raw string raw for the input in, by the rule of C25.
ValueByRule(in, raw) ==
    CASE in.ValueParser = "ParseInt" -> ParseInt(raw)
      [] in.ValueParser = "ParseBool" -> ParseBool(raw)
      [] in.ValueParser = "nil" /\ in.IsBoolOpt /\ raw = <<>> -> [ok |-> TRUE, val |-> BoolVal(TRUE)]
      [] in.ValueParser = "nil" /\ in.IsBoolOpt /\ raw # <<>> -> ParseBool(raw)
      [] OTHER -> [ok |-> TRUE, val |-> StrVal(raw)]

\* The entry e is one of an input of c, made by the rule from its RawValue.
MadeByRule(c, e) ==
    \E k \in 1..Len(Declared(c)) :
        /\ e.ID = Declared(c)[k].ID
        /\ ValueByRule(Declared(c)[k], e.RawValue).ok
        /\ e.Value = ValueByRule(Declared(c)[k], e.RawValue).val

\* Every entry, whatever its source, is made by the rule.
C25State ==
    \A k \in 1..Len(frames) : \A j \in 1..Len(cmds[k].Inputs) :
        MadeByRule(frames[k].c, cmds[k].Inputs[j])

\* The defaults of c, by the rule: the entries, and whether one fails.
DefaultsByRule(c) ==
    LET d == DeclaredWithDefault(c)
    IN  [fails |-> \E k \in 1..Len(d) : ~ValueByRule(d[k], d[k].StrDefault).ok,
         inputs |-> [k \in 1..Len(d) |->
                        MkInput(d[k].ID, FromDefault, d[k].StrDefault,
                                ValueByRule(d[k], d[k].StrDefault).val)]]

\* The set environment variables of c, by the rule.
EnvsByRule(c) ==
    LET d == DeclaredWithEnv(c, env)
    IN  [fails |-> \E k \in 1..Len(d) : ~ValueByRule(d[k], EnvValue(d[k])).ok,
         inputs |-> [k \in 1..Len(d) |->
                        MkInput(d[k].ID, FromEnv(d[k].EnvVar), EnvValue(d[k]),
                                ValueByRule(d[k], EnvValue(d[k])).val)]]

\* The defaults and the environment go through the rule: entries when all
\* values pass, an error when one fails.
C25Seeds ==
    /\ Running("defaults") =>
        IF DefaultsByRule(cur.c).fails THEN After.phase = "ret" /\ After.err # NilErr
        ELSE After.phase = "envs" /\ AfterCmd.Inputs = curCmd.Inputs \o DefaultsByRule(cur.c).inputs
    /\ Running("envs") =>
        IF EnvsByRule(cur.c).fails THEN After.phase = "ret" /\ After.err # NilErr
        ELSE After.phase = "scan" /\ AfterCmd.Inputs = curCmd.Inputs \o EnvsByRule(cur.c).inputs

\* A value on the command line goes through the rule: the token -c=v or
\* --name=v of a declared option without help generator or versioner records
\* the value of v, or returns an error when v fails.
C25Named ==
    LET typed == Unhyphened(Token)
        eq == eqIndex(typed)
        name == Upto(typed, eq)
        raw == From(typed, eq + 1)
        in == Matched(cur.c, name)
    IN  (/\ Scanning /\ IsNamedToken(Token) /\ eq > 0
         /\ Matches(cur.c, name)
         /\ in.HelpGen = "nil" /\ in.Versioner = "nil") =>
            IF ~ValueByRule(in, raw).ok
            THEN After.phase = "ret" /\ After.err.type = "OptionValueError" /\ cmds' = cmds
            ELSE AfterCmd.Inputs = Append(curCmd.Inputs,
                    MkInput(in.ID, FromOpt(name), raw, ValueByRule(in, raw).val))

CarriesHelp(in) == in.HelpGen # "nil" \/ in.Versioner # "nil"

\* The running parse of c reads the token tok, whose character u (or whose
\* name, when u = 0) resolves to an option carrying a help generator or
\* versioner, every character before it being recorded.
Triggers(c, tok, u) ==
    IF u = 0
    THEN /\ IsNamedToken(tok) /\ Matches(c, TypedName(tok))
         /\ CarriesHelp(Matched(c, TypedName(tok)))
    ELSE /\ IsClusterToken(tok) /\ u \in 2..Len(tok)
         /\ RecordedUpTo(c, tok, u)
         /\ \A k \in 2..(u - 1) : ~CarriesHelp(ShortOpt(c, tok[k]))
         /\ DeclaresShort(c, tok[u])
         /\ CarriesHelp(ShortOpt(c, tok[u]))

TriggerOpt(c, tok, u) ==
    IF u = 0 THEN Matched(c, TypedName(tok)) ELSE ShortOpt(c, tok[u])

\* The triggering option takes its value from the token that follows.
TakesNext(c, tok, u) ==
    /\ ~TriggerOpt(c, tok, u).IsBoolOpt
    /\ IF u = 0 THEN eqIndex(Unhyphened(tok)) = -1 ELSE u = Len(tok)

\* The raw value of the triggering option when it is in the token itself.
OwnValue(c, tok, u) ==
    IF u = 0
    THEN IF eqIndex(Unhyphened(tok)) = -1 THEN <<>>
         ELSE From(Unhyphened(tok), eqIndex(Unhyphened(tok)) + 1)
    ELSE IF TriggerOpt(c, tok, u).IsBoolOpt THEN <<>>
         ELSE SubSeq(tok, u + 1, Len(tok))

\* The step returns from the option loop with what stood before the trigger
\* recorded and nothing else: no entry of the trigger, no surplus, no
\* subcommand, no check of the required options.
StopsBefore(u) ==
    /\ After.phase = "ret" /\ sp' = sp /\ Len(frames') = Len(frames)
    /\ Len(cmds') = Len(cmds)
    /\ After.errMissingOpts = cur.errMissingOpts
    /\ AfterCmd.Surplus = curCmd.Surplus
    /\ AfterCmd.Inputs = curCmd.Inputs \o
            (IF u = 0 THEN <<>> ELSE StackEntries(cur.c, Token, u))

\* The outcome of the trigger with raw value raw: the coercion error, or the
\* request.
CoercedThenHelp(u, raw) ==
    /\ StopsBefore(u)
    /\ After.err.type =
            IF ValueByRule(TriggerOpt(cur.c, Token, u), raw).ok
            THEN "HelpOrVersionRequested" ELSE "OptionValueError"

\* C26 as stated: every resolved trigger returns the coercion error or the
\* request.
C26AsStated ==
    [][Scanning => \A u \in 0..Len(Token) :
        Triggers(cur.c, Token, u) =>
            IF TakesNext(cur.c, Token, u)
            THEN /\ StopsBefore(u)
                 /\ After.err.type \in {"HelpOrVersionRequested", "OptionValueError"}
            ELSE CoercedThenHelp(u, OwnValue(cur.c, Token, u))]_vars

\* C26: when the option scan resolves an option carrying a help generator
\* or versioner, alone or inside a short cluster, the value of the option is
\* taken and coerced first, a missing value or a coercion error being
\* returned instead of help, and then parse returns HelpOrVersionRequested
\* at once: the trigger is not appended to Inputs, no later token is
\* examined, and the required options, the positional arguments and the
\* subcommand of that command are not checked. What precedes the trigger is
\* recorded already.
C26 ==
    [][Scanning => \A u \in 0..Len(Token) :
        Triggers(cur.c, Token, u) =>
            IF ~TakesNext(cur.c, Token, u)
            THEN CoercedThenHelp(u, OwnValue(cur.c, Token, u))
            ELSE IF cur.i + 1 < Len(cur.args)
            THEN CoercedThenHelp(u, At(cur.args, cur.i + 1))
            ELSE /\ StopsBefore(u)
                 /\ After.err.type = "MissingOptionValueError"]_vars

\* ["-q", "-bu", "1"] on a command whose required option q came first: b and
\* q are recorded, u is not, and the request is returned although a token
\* is left that names no subcommand.
C26Witness ==
    /\ pc = "done" /\ err.type = "HelpOrVersionRequested"
    /\ Len(args) = 3 /\ args[2] = <<"-", "b", "u">>
    /\ Len(cmds) = 1
    /\ Len(OptEntries(cmds[1].Inputs)) = 2
    /\ cmds[1].Surplus = <<>>

\* ------------------------------------------------------------------------
\* C27
\* ------------------------------------------------------------------------

\* tok begins with two hyphens.
TwoHyphens(tok) == Len(tok) >= 2 /\ tok[1] = "-" /\ tok[2] = "-"

\* The options of c that the name part of tok names, by the kind of tok: by
\* long name for two hyphens, by short name for one.
NamedBy(c, tok) ==
    LET name == TypedName(tok)
    IN  IF name = <<>> THEN {}
        ELSE IF TwoHyphens(tok)
            THEN {k \in 1..Len(c.Opts) : c.Opts[k].NameLong = name}
        ELSE {k \in 1..Len(c.Opts) :
                Len(name) = 1 /\ name[1] # NUL /\ c.Opts[k].NameShort = name[1]}

\* C27: an option token resolves to an option only through the names the
\* option declares: with two leading hyphens through the non-empty long
\* names, with one through the short names. A token whose name part is no
\* declared non-empty name of that kind (the empty name of "--=x" and "-=x"
\* too) returns UnknownOptionError and records nothing; any entry a token
\* records is one of an option that its name part names.
C27 ==
    [][(Scanning /\ IsNamedToken(Token)) =>
        IF NamedBy(cur.c, Token) = {}
        THEN /\ After.phase = "ret" /\ After.err.type = "UnknownOptionError"
             /\ cmds' = cmds
        ELSE /\ After.err.type # "UnknownOptionError"
             /\ \A j \in (Len(curCmd.Inputs) + 1)..Len(AfterCmd.Inputs) :
                    \E k \in NamedBy(cur.c, Token) :
                        AfterCmd.Inputs[j].ID = cur.c.Opts[k].ID]_vars

\* ------------------------------------------------------------------------
\* C28
\* ------------------------------------------------------------------------

\* The number of levels of subcommands below c.
RECURSIVE NestingDepth(_)
NestingDepth(c) ==
    IF Len(c.Subcmds) = 0 THEN 0
    ELSE 1 + CHOOSE m \in {NestingDepth(c.Subcmds[k]) : k \in 1..Len(c.Subcmds)} :
                \A k \in 1..Len(c.Subcmds) : NestingDepth(c.Subcmds[k]) <= m

\* An iteration of the option loop that is followed by another one leaves
\* the cursor further on, within the tokens.
C28Cursor ==
    (Running("scan") /\ After.phase = "scan") =>
        /\ After.i > cur.i
        /\ After.i <= Len(cur.args)
        /\ After.args = cur.args

\* A recursion receives fewer tokens than the call that makes it.
C28Shorter ==
    (Running("dispatch") /\ Len(frames') > Len(frames)) =>
        Len(frames'[sp'].args) < Len(cur.args)

\* The calls below the root call are no more than the tokens and no more
\* than the levels of the schema.
C28Depth ==
    pc \in {"running", "done"} =>
        /\ Len(frames) - 1 <= Len(args)
        /\ Len(frames) - 1 <= NestingDepth(schema)
        /\ \A k \in 1..Len(frames) : Len(frames[k].args) <= Len(args) - (k - 1)

\* A bound on the steps of a call of parse with n tokens: its own phases,
\* one iteration of the option loop for each token, and a recursion with
\* fewer tokens.
RECURSIVE StepsBound(_)
StepsBound(n) == IF n < 0 THEN 0 ELSE n + 7 + StepsBound(n - 1)

\* The steps the call of frame f may still take, the recursion included.
StepsLeft(f) ==
    LET n == Len(f.args)
    IN  CASE f.phase = "defaults" -> StepsBound(n)
          [] f.phase = "envs" -> StepsBound(n) - 1
          [] f.phase = "scan" -> StepsBound(n) - 2 - f.i
          [] f.phase = "required" -> StepsBound(n) - 3 - n
          [] f.phase = "dispatch" -> StepsBound(n) - 4 - n
          [] f.phase = "wait" -> 2
          [] f.phase = "ret" -> 1

RECURSIVE StepsLeftUpTo(_)
StepsLeftUpTo(k) == IF k = 0 THEN 0 ELSE StepsLeft(frames[k]) + StepsLeftUpTo(k - 1)

\* The variant of a call of ParseThese: a natural number that every step
\* makes smaller.
Variant ==
    CASE pc = "idle" -> StepsBound(Len(args)) + 1
      [] pc = "running" -> StepsLeftUpTo(sp)
      [] OTHER -> 0

C28Variant == Variant' < Variant /\ Variant' >= 0

\* C28: a call of parse terminates: every iteration of the option loop
\* moves the cursor on, every recursion into a subcommand gets fewer tokens
\* than its caller has, and the depth of the recursion is at most the
\* number of tokens and at most the nesting depth of the schema.
C28 ==
    /\ []C28Depth
    /\ [][C28Cursor /\ C28Shorter /\ C28Variant]_vars

\* A parse that went two levels down on three tokens after an option loop of
\* more than one iteration, and returned.
C28Witness ==
    /\ pc = "done"
    /\ Len(frames) = 3
    /\ frames[1].i >= 1 /\ Len(args) = 3
    /\ NestingDepth(schema) = 2

\* ------------------------------------------------------------------------
\* C29
\* ------------------------------------------------------------------------

\* The cursor of every call is within its tokens whenever args[i] may be
\* read and when args[i:] is taken, and rest is what args[i:] is then; the
\* index of a call that has returned is the cursor, or the slot at which the
\* positional walk stopped.
C29State ==
    \A k \in 1..Len(frames) :
        LET f == frames[k]
        IN  /\ f.i >= 0
            /\ f.phase \in {"defaults", "envs", "scan", "required", "dispatch", "wait"} =>
                    f.i <= Len(f.args)
            /\ f.phase \in {"dispatch", "wait"} =>
                    /\ Len(f.rest) = Len(f.args) - f.i
                    /\ \A j \in 1..Len(f.rest) : f.rest[j] = f.args[f.i + j]
            /\ f.phase = "ret" =>
                    f.i <= Len(f.args) \/ f.i <= Len(f.c.Args)

\* An iteration of the option loop reads the token at the cursor and at
\* most the one after it, which it reads only if there is one: a value
\* taken from the next token is that token, and a step on the last token
\* leaves the cursor within the tokens.
C29Scan ==
    Scanning =>
        /\ After.i \in cur.i..(cur.i + 2)
        /\ After.i <= Len(cur.args)
        /\ (After.i = cur.i + 2) =>
                /\ cur.i + 1 < Len(cur.args)
                /\ Len(AfterCmd.Inputs) > Len(curCmd.Inputs)
                /\ AfterCmd.Inputs[Len(AfterCmd.Inputs)].RawValue = At(cur.args, cur.i + 1)
        /\ (After.phase = "required") => After.i <= Len(cur.args)

\* The walk over the positional arguments reads no token that rest does not
\* have: every entry it records is the token of its slot, and the surplus
\* is what lies beyond the slots it stopped at.
C29Walk ==
    (Running("dispatch") /\ Len(cur.c.Subcmds) = 0) =>
        LET new == SubSeq(AfterCmd.Inputs, Len(curCmd.Inputs) + 1, Len(AfterCmd.Inputs))
        IN  /\ Len(new) <= Len(cur.rest)
            /\ Len(new) <= Len(cur.c.Args)
            /\ \A j \in 1..Len(new) :
                    new[j].From.Arg = j /\ new[j].RawValue = cur.rest[j]
            /\ Len(new) + Len(AfterCmd.Surplus) <= Len(cur.rest)
            /\ After.i <= Len(cur.c.Args)

\* The recursion is made on a token that rest has.
C29Dispatch ==
    (Running("dispatch") /\ Len(frames') > Len(frames)) =>
        /\ Len(cur.rest) >= 1
        /\ cmds'[sp'].Name = cur.rest[1]

\* C29: the cursor i of the option loop is between 0 and len(args) at every
\* read of args[i] and when args[i:] is taken, and the positional walk
\* reads no index beyond the remaining tokens: no access is out of range,
\* also when the last token is a non-boolean option or a cluster ending in
\* one, when it is "--", and when there is no token.
C29 == []C29State /\ [][C29Scan /\ C29Walk /\ C29Dispatch]_vars

\* "--" was the last token: the cursor stands at len(args) when args[i:] is
\* taken, and rest is empty.
C29Witness ==
    /\ Running("dispatch")
    /\ Len(cur.args) >= 1
    /\ cur.args[Len(cur.args)] = <<"-", "-">>
    /\ cur.i = Len(cur.args)
    /\ cur.rest = <<>>

\* ------------------------------------------------------------------------
\* C30
\* ------------------------------------------------------------------------

\* The option of c recorded under id is boolean.
RecordedBool(c, id) ==
    \E k \in 1..Len(c.Opts) : c.Opts[k].ID = id /\ c.Opts[k].IsBoolOpt

\* The tokens zone[t..] account for the option entries entries[e..] of c, one
\* after the other: an option token for one entry, or for one entry for
\* each character of a cluster (u is the character reached, 0 outside a
\* cluster); after it the value token of a non-boolean option that has no
\* value in its own token; "--" as the last token, and nothing else.
RECURSIVE Accounts(_, _, _, _, _, _)
Accounts(c, zone, t, u, entries, e) ==
    IF t > Len(zone) THEN e > Len(entries)
    ELSE
    LET tok == zone[t]
    IN  IF tok = <<"-", "-">> THEN t = Len(zone) /\ e > Len(entries)
        ELSE IF e > Len(entries) THEN FALSE
        ELSE IF IsClusterToken(tok) THEN
            LET v == IF u = 0 THEN 2 ELSE u
                in == entries[e]
            IN  /\ in.From.Opt = <<tok[v]>>
                /\ IF RecordedBool(c, in.ID)
                   THEN /\ in.RawValue = <<>>
                        /\ IF v = Len(tok) THEN Accounts(c, zone, t + 1, 0, entries, e + 1)
                           ELSE Accounts(c, zone, t, v + 1, entries, e + 1)
                   ELSE IF v < Len(tok)
                   THEN /\ in.RawValue = SubSeq(tok, v + 1, Len(tok))
                        /\ Accounts(c, zone, t + 1, 0, entries, e + 1)
                   ELSE /\ t + 1 <= Len(zone)
                        /\ in.RawValue = zone[t + 1]
                        /\ Accounts(c, zone, t + 2, 0, entries, e + 1)
        ELSE IF IsNamedToken(tok) THEN
            LET in == entries[e]
                eq == eqIndex(Unhyphened(tok))
            IN  /\ in.From.Opt = TypedName(tok)
                /\ IF eq # -1
                   THEN /\ in.RawValue = From(Unhyphened(tok), eq + 1)
                        /\ Accounts(c, zone, t + 1, 0, entries, e + 1)
                   ELSE IF RecordedBool(c, in.ID)
                   THEN /\ in.RawValue = <<>>
                        /\ Accounts(c, zone, t + 1, 0, entries, e + 1)
                   ELSE /\ t + 1 <= Len(zone)
                        /\ in.RawValue = zone[t + 1]
                        /\ Accounts(c, zone, t + 2, 0, entries, e + 1)
        ELSE FALSE

\* The tokens of the k-th call are accounted for: those before rest by the
\* option entries of its Command; rest by the name of the next Command and
\* the tokens of the next call, or, in the last call, by the positional
\* entries and the surplus.
CallAccounted(k) ==
    LET f == frames[k]
        n == Len(f.args) - Len(f.rest)
    IN  /\ n >= 0
        /\ f.args = Upto(f.args, n) \o f.rest
        /\ Accounts(f.c, Upto(f.args, n), 1, 0, OptEntries(cmds[k].Inputs), 1)
        /\ \A j \in 1..Len(ArgEntries(cmds[k].Inputs)) :
                ArgEntries(cmds[k].Inputs)[j].From.Arg = j
        /\ IF k < Len(frames)
           THEN /\ f.rest = <<cmds[k + 1].Name>> \o frames[k + 1].args
                /\ cmds[k].Surplus = <<>>
                /\ ArgEntries(cmds[k].Inputs) = <<>>
           ELSE f.rest = RawValues(ArgEntries(cmds[k].Inputs)) \o cmds[k].Surplus

\* C30: after a parse without error every token of the argument list is
\* accounted for once and in order: as an option token, as the value token
\* of a non-boolean option, as the terminator "--", as the name of the next
\* nested Command, as the RawValue of a positional entry or as an element of
\* Surplus; only the deepest Command has a Surplus.
C30 ==
    (pc = "done" /\ err = NilErr) =>
        /\ frames[1].args = args
        /\ Len(cmds) = Len(frames)
        /\ \A k \in 1..Len(frames) : CallAccounted(k)

\* A parse without error of three tokens: an option with its value in the
\* next token, then a positional argument or a surplus token.
C30Witness ==
    /\ pc = "done" /\ err = NilErr
    /\ Len(args) = 3
    /\ Len(OptEntries(cmds[1].Inputs)) = 1
    /\ OptEntries(cmds[1].Inputs)[1].RawValue = args[2]
    /\ RawValues(ArgEntries(cmds[1].Inputs)) \o cmds[1].Surplus = <<args[3]>>

====
